---- MODULE Spec2Model ----
(***************************************************************************)
(* llm-router: the decision-engine subsystem.                              *)
(*                                                                         *)
(*   - the model catalog (models.ts),                                      *)
(*   - the heuristic classifier DefaultEngine (engines/default.ts),        *)
(*   - the two-stage classifier LLMClassifierEngine with its               *)
(*     ClassificationCache (engines/llm-classifier.ts),                    *)
(*   - the engine registry and autoRoute (engines/index.ts).               *)
(*                                                                         *)
(* Units.  Money is in thousandths of a dollar (0.075 -> 75).  Complexity  *)
(* scores are multiplied by 50, so that (length - 100) / 50 stays an       *)
(* integer: a score of 20 is 1000 here.  Confidences are in 1/10000        *)
(* (0.99 -> 9900, 0.3 -> 3000).  Time is Date.now() in abstract            *)
(* milliseconds.                                                           *)
(*                                                                         *)
(* Prompts are sequences of words joined by single spaces; each word is    *)
(* a piece of text whose length, ``` markers, question marks and regex     *)
(* matches are tabulated in WordTable.                                     *)
(***************************************************************************)
EXTENDS Integers, Sequences, FiniteSets, TLC

(***************************************************************************)
(* Bounds of the model.                                                    *)
(***************************************************************************)
\* Longest prompt, in words, handed to the heuristic classifier.
MaxWords == 2
\* The clock stops here.
MaxTime == 2
\* cacheTtlMs (a constructor option, 60000 by default), in abstract ms.
CacheTtlMs == 1
\* The cache's capacity.  The code's literal is 1000 (llm-classifier.ts:107);
\* the model runs the same set() with a capacity small enough for TLC to
\* fill the cache and push it beyond capacity.
MaxCacheEntries == 2

(***************************************************************************)
(* Small helpers.                                                          *)
(***************************************************************************)
Min(a, b) == IF a < b THEN a ELSE b
Max(a, b) == IF a > b THEN a ELSE b

\* Array.prototype.slice(0, n)
Slice(s, n) == SubSeq(s, 1, Min(n, Len(s)))

\* The sum of f[x] over the elements x of the sequence s.
RECURSIVE SumOver(_, _)
SumOver(s, f) == IF s = <<>> THEN 0 ELSE f[Head(s)] + SumOver(Tail(s), f)

SeqToSet(s) == {s[i] : i \in 1..Len(s)}

(***************************************************************************)
(* models.ts: the catalog.  MODELS keeps the object literal's key order,   *)
(* which is the order of Object.values(MODELS).                            *)
(***************************************************************************)
ModelConfig(a, p, m, c) ==
    [alias |-> a, provider |-> p, model |-> m, costPer1kTokens |-> c]

\* The JavaScript value undefined where a ModelConfig is expected.
Undefined == ModelConfig("undefined", "undefined", "undefined", 0)

MODELS ==
    << ModelConfig("gemma-2b",      "ollama",    "gemma:2b",                   0),
       ModelConfig("llama3-8b",     "ollama",    "llama3:8b",                  0),
       ModelConfig("kimi",          "ollama",    "kimi-k2.5",                  0),
       ModelConfig("claude-haiku",  "anthropic", "claude-3-haiku-20240307",    250),
       ModelConfig("claude-sonnet", "anthropic", "claude-3-5-sonnet-20241022", 3000),
       ModelConfig("claude-opus",   "anthropic", "claude-3-opus-20240229",     15000),
       ModelConfig("gpt-4o-mini",   "openai",    "gpt-4o-mini",                150),
       ModelConfig("gpt-4o",        "openai",    "gpt-4o",                     2500),
       ModelConfig("gpt-4-turbo",   "openai",    "gpt-4-turbo-preview",        10000),
       ModelConfig("codex",         "openai",    "gpt-4o-codex",               3000),
       ModelConfig("gemini-flash",  "google",    "gemini-2.0-flash-exp",       75),
       ModelConfig("gemini-pro",    "google",    "gemini-1.5-pro-latest",      3500) >>

Aliases == {MODELS[i].alias : i \in 1..Len(MODELS)}

\* MODELS is an object literal: next to its own keys it has the keys it
\* inherits from Object.prototype, of which toString stands for all
\* (constructor, valueOf, hasOwnProperty, ...).
InheritedKeys == {"toString"}

\* undefined, and NaN, where a cost is expected.  No cost is negative.
NoCost == 0 - 1

\* Object.prototype.toString where a ModelConfig is expected: a function,
\* which is truthy and whose provider, model and costPer1kTokens are
\* undefined.
InheritedMember == ModelConfig("toString", "undefined", "undefined", NoCost)

\* cost * 2; undefined * 2 is NaN
Twice(cost) == IF cost = NoCost THEN NoCost ELSE cost * 2

\* MODELS[alias]
ModelAt(alias) ==
    IF alias \in Aliases
    THEN MODELS[CHOOSE i \in 1..Len(MODELS) : MODELS[i].alias = alias]
    ELSE IF alias \in InheritedKeys THEN InheritedMember
    ELSE Undefined

\* Array.prototype.find: the first element of s at one of the positions
\* hits (those whose element satisfies the callback), else undefined.
Find(s, hits) ==
    IF hits # {}
    THEN s[CHOOSE i \in hits : \A j \in hits : i <= j]
    ELSE Undefined

\* a || b on ModelConfig values
OrElse(a, b) == IF a # Undefined THEN a ELSE b

getModel(alias) ==
    OrElse(ModelAt(alias), Find(MODELS, {i \in 1..Len(MODELS) : MODELS[i].model = alias}))

\* Array.prototype.sort((a, b) => a.costPer1kTokens - b.costPer1kTokens),
\* which is stable: an insertion sort that keeps equal costs in order.
RECURSIVE InsertByCost(_, _)
InsertByCost(m, s) ==
    IF s = <<>> THEN <<m>>
    ELSE IF m.costPer1kTokens < Head(s).costPer1kTokens THEN <<m>> \o s
    ELSE <<Head(s)>> \o InsertByCost(m, Tail(s))

RECURSIVE SortByCost(_)
SortByCost(s) ==
    IF s = <<>> THEN <<>>
    ELSE InsertByCost(s[Len(s)], SortByCost(SubSeq(s, 1, Len(s) - 1)))

(***************************************************************************)
(* Prompts.                                                                *)
(***************************************************************************)
Word(w, n, t, q, g) == [w |-> w, len |-> n, ticks |-> t, qmarks |-> q, tags |-> g]

\* Each word: its text, its length, the number of ``` markers and of
\* question marks in it, and the PATTERNS of default.ts it matches.
WordTable ==
    { Word("HEARTBEAT_OK", 12, 0, 0, {"heartbeat"}),
      Word("hi", 2, 0, 0, {"simple"}),
      Word("lorem", 5, 0, 0, {}),
      Word("const", 5, 0, 0, {"code"}),
      Word("docker", 6, 0, 0, {"git"}),
      \* the code fence marker, three backquotes
      Word("<fence>", 3, 1, 0, {}),
      Word("/src/main.ts", 12, 0, 0, {"filePath"}),
      Word("revenue", 7, 0, 0, {"business"}),
      Word("explain", 7, 0, 0, {"reasoning"}),
      Word("imagine", 7, 0, 0, {"questionComplexity"}),
      Word("?", 1, 0, 1, {}),
      Word("why??", 5, 0, 2, {"reasoning", "questionComplexity"}),
      \* a paragraph of 120 plain characters
      Word("<paragraph>", 120, 0, 0, {}),
      \* an essay of 900 plain characters
      Word("<essay>", 900, 0, 0, {}),
      \* a questionnaire: ten short questions, 10 question marks
      Word("<questions>", 60, 0, 10, {}),
      \* five questions that ask "what if" and "how"
      Word("<what-ifs>", 80, 0, 5, {"reasoning", "questionComplexity"}),
      \* nine questions on a scenario's cost
      Word("<forecast>", 90, 0, 9, {"business", "questionComplexity"}) }

Words == {r.w : r \in WordTable}
Feat(w) == CHOOSE r \in WordTable : r.w = w

\* prompt.length: the words and the spaces between them
Length(prompt) ==
    IF prompt = <<>> THEN 0
    ELSE SumOver(prompt, [w \in Words |-> Feat(w).len]) + (Len(prompt) - 1)

\* PATTERNS.<tag>.test(prompt)
Test(tag, prompt) == \E i \in 1..Len(prompt) : tag \in Feat(prompt[i]).tags

\* (prompt.match(/```/g) || []).length
TickCount(prompt) == SumOver(prompt, [w \in Words |-> Feat(w).ticks])
\* (prompt.match(/\?/g) || []).length
QuestionCount(prompt) == SumOver(prompt, [w \in Words |-> Feat(w).qmarks])

\* PATTERNS.codeBlock = /```[\s\S]*?```/ : an opening and a closing marker
TestCodeBlock(prompt) == TickCount(prompt) >= 2

(***************************************************************************)
(* engines/default.ts: the heuristic classifier.                           *)
(***************************************************************************)
\* The score, times 50.
calculateComplexity(prompt) ==
    LET length == Length(prompt)
        s1 == IF length > 200 THEN Min(750, length - 100) ELSE 0
        \* codeBlocks = markers / 2; score += codeBlocks * 20
        s2 == s1 + TickCount(prompt) * 500
        s3 == s2 + QuestionCount(prompt) * 150
        s4 == s3 + (IF Test("reasoning", prompt) THEN 500 ELSE 0)
        s5 == s4 + (IF Test("questionComplexity", prompt) THEN 750 ELSE 0)
        s6 == s5 + (IF Test("business", prompt) THEN 400 ELSE 0)
        s7 == s6 + (IF Test("filePath", prompt) THEN 600 ELSE 0)
    IN  Min(5000, s7)

isCodeQuery(prompt) ==
    \/ Test("code", prompt)
    \/ Test("git", prompt)
    \/ TestCodeBlock(prompt)
    \/ Test("filePath", prompt)

isHeartbeat(prompt) == Test("heartbeat", prompt)

isSimpleQuery(prompt) == Test("simple", prompt) /\ Length(prompt) < 100

DefaultBuildFallbackChain(primary) ==
    LET sameProvider ==
            SortByCost(SelectSeq(MODELS, LAMBDA m :
                m.provider = primary.provider /\ m.model # primary.model))
        ollamaModels ==
            SelectSeq(<<ModelAt("llama3-8b"), ModelAt("gemma-2b")>>,
                      LAMBDA m : m # Undefined)
    IN  Slice(sameProvider, 2)
        \o (IF primary.provider # "ollama" THEN ollamaModels ELSE <<>>)

(***************************************************************************)
(* Values.  A RoutingContext carries the prompt, the explicit model        *)
(* request ("" when absent) and userPreferences.preferredProvider ("" when *)
(* absent).  What a decide call gives back is a RoutingDecision, null, or  *)
(* an exception.                                                           *)
(***************************************************************************)
RoutingContext(p, m, pp) ==
    [prompt |-> p, requestedModel |-> m, preferredProvider |-> pp]

RoutingDecision(c, conf, r, cost, chain) ==
    [kind |-> "decision", config |-> c, confidence |-> conf, reasoning |-> r,
     estimatedCost |-> cost, fallbackChain |-> chain]

Null == [kind |-> "null"]
Raised(e) == [kind |-> "raised", error |-> e]
\* No value yet (a call that has not returned).
Pending == [kind |-> "pending"]

\* A selection table whose thresholds would include their boundary.
SelectByComplexityInclusive(prompt, complexity) ==
    IF isCodeQuery(prompt)
    THEN IF complexity >= 2500
         THEN [config |-> OrElse(ModelAt("codex"), ModelAt("claude-sonnet")),
               reasoning |-> <<"Code query - using specialized coding model">>]
         ELSE [config |-> ModelAt("claude-sonnet"),
               reasoning |-> <<"Code query - using balanced coding model">>]
    ELSE IF complexity >= 3500
    THEN [config |-> ModelAt("claude-opus"),
          reasoning |-> <<"High complexity - using reasoning model">>]
    ELSE IF complexity >= 2000
    THEN [config |-> OrElse(ModelAt("claude-sonnet"), ModelAt("gpt-4o")),
          reasoning |-> <<"Medium complexity - using balanced model">>]
    ELSE IF complexity >= 1000
    THEN [config |-> OrElse(ModelAt("claude-haiku"), ModelAt("gemini-flash")),
          reasoning |-> <<"Low complexity - using fast cheap model">>]
    ELSE [config |-> OrElse(ModelAt("kimi"), ModelAt("gemma-2b")),
          reasoning |-> <<"Very low complexity - using local model">>]

\* The selection table of decide (after the heartbeat and greeting branches).
SelectByComplexity(prompt, complexity) ==
    IF isCodeQuery(prompt)
    THEN IF complexity > 2500
         THEN [config |-> OrElse(ModelAt("codex"), ModelAt("claude-sonnet")),
               reasoning |-> <<"Code query - using specialized coding model">>]
         ELSE [config |-> ModelAt("claude-sonnet"),
               reasoning |-> <<"Code query - using balanced coding model">>]
    ELSE IF complexity > 3500
    THEN [config |-> ModelAt("claude-opus"),
          reasoning |-> <<"High complexity - using reasoning model">>]
    ELSE IF complexity > 2000
    THEN [config |-> OrElse(ModelAt("claude-sonnet"), ModelAt("gpt-4o")),
          reasoning |-> <<"Medium complexity - using balanced model">>]
    ELSE IF complexity > 1000
    THEN [config |-> OrElse(ModelAt("claude-haiku"), ModelAt("gemini-flash")),
          reasoning |-> <<"Low complexity - using fast cheap model">>]
    ELSE [config |-> OrElse(ModelAt("kimi"), ModelAt("gemma-2b")),
          reasoning |-> <<"Very low complexity - using local model">>]

\* A substitution that would take the provider's last catalog entry.
ApplyPreferenceLast(sel, preferredProvider) ==
    IF preferredProvider # "" /\ sel.config.provider # preferredProvider
    THEN LET hits == {i \in 1..Len(MODELS) : MODELS[i].provider = preferredProvider}
         IN  IF hits # {}
             THEN [config |-> MODELS[CHOOSE i \in hits : \A j \in hits : j <= i],
                   reasoning |-> sel.reasoning \o <<"(user preferred provider)">>]
             ELSE sel
    ELSE sel

\* "Honor user preferences if specified"
ApplyPreference(sel, preferredProvider) ==
    IF preferredProvider # "" /\ sel.config.provider # preferredProvider
    THEN LET preferred == Find(MODELS, {i \in 1..Len(MODELS) : MODELS[i].provider = preferredProvider})
         IN  IF preferred # Undefined
             THEN [config |-> preferred,
                   reasoning |-> sel.reasoning \o <<"(user preferred provider)">>]
             ELSE sel
    ELSE sel

\* An explicit request that would resolve by alias only.
ApplyExplicitByAlias(sel, requestedModel) ==
    IF requestedModel # "" /\ ModelAt(requestedModel) # Undefined
    THEN [config |-> ModelAt(requestedModel),
          reasoning |-> <<"Explicit model request">>]
    ELSE sel

\* "Honor explicit model request"
ApplyExplicit(sel, requestedModel) ==
    IF requestedModel # "" /\ getModel(requestedModel) # Undefined
    THEN [config |-> getModel(requestedModel),
          reasoning |-> <<"Explicit model request">>]
    ELSE sel

\* A decide that would honor the explicit model request on every branch.
DefaultDecideOverridesAll(context) ==
    LET prompt == context.prompt
        complexity == calculateComplexity(prompt)
        sel == ApplyExplicit(
                   ApplyPreference(SelectByComplexity(prompt, complexity),
                                   context.preferredProvider),
                   context.requestedModel)
    IN  IF sel.reasoning = <<"Explicit model request">>
        THEN RoutingDecision(sel.config, 10000, sel.reasoning,
                 Twice(sel.config.costPer1kTokens),
                 DefaultBuildFallbackChain(sel.config))
        ELSE IF isHeartbeat(prompt)
        THEN RoutingDecision(ModelAt("gemma-2b"), 9900,
                 <<"Heartbeat pattern detected - using cheapest local model">>,
                 0, <<>>)
        ELSE IF isSimpleQuery(prompt)
        THEN RoutingDecision(ModelAt("gemma-2b"), 9000,
                 <<"Simple greeting/command - using local fast model">>,
                 0, <<ModelAt("claude-haiku")>>)
        ELSE RoutingDecision(sel.config,
                 Max(5000, 10000 - complexity),
                 sel.reasoning,
                 Twice(sel.config.costPer1kTokens),
                 DefaultBuildFallbackChain(sel.config))

\* A decide that would estimate the cost of 1k tokens instead of 2k.
DefaultDecidePer1k(context) ==
    LET prompt == context.prompt
        complexity == calculateComplexity(prompt)
        sel == ApplyExplicit(
                   ApplyPreference(SelectByComplexity(prompt, complexity),
                                   context.preferredProvider),
                   context.requestedModel)
    IN  IF isHeartbeat(prompt) \/ isSimpleQuery(prompt)
        THEN RoutingDecision(ModelAt("gemma-2b"), 9000, <<>>, 0, <<>>)
        ELSE RoutingDecision(sel.config,
                 Max(5000, 10000 - complexity),
                 sel.reasoning,
                 sel.config.costPer1kTokens,
                 DefaultBuildFallbackChain(sel.config))

\* DefaultEngine.decide
DefaultDecide(context) ==
    LET prompt == context.prompt
        complexity == calculateComplexity(prompt)
        sel == ApplyExplicit(
                   ApplyPreference(SelectByComplexity(prompt, complexity),
                                   context.preferredProvider),
                   context.requestedModel)
    IN  IF isHeartbeat(prompt)
        THEN RoutingDecision(ModelAt("gemma-2b"), 9900,
                 <<"Heartbeat pattern detected - using cheapest local model">>,
                 0, <<>>)
        ELSE IF isSimpleQuery(prompt)
        THEN RoutingDecision(ModelAt("gemma-2b"), 9000,
                 <<"Simple greeting/command - using local fast model">>,
                 0, <<ModelAt("claude-haiku")>>)
        ELSE RoutingDecision(sel.config,
                 Max(5000, 10000 - complexity),
                 sel.reasoning,
                 Twice(sel.config.costPer1kTokens),
                 DefaultBuildFallbackChain(sel.config))

\* A hint that would fall with the score twice as fast: 1 - score/100.
DefaultGetConfidencePerHundred(context) ==
    IF isHeartbeat(context.prompt) THEN 9900
    ELSE IF isSimpleQuery(context.prompt) THEN 9000
    ELSE 10000 - 2 * calculateComplexity(context.prompt)

\* DefaultEngine.getConfidence
DefaultGetConfidence(context) ==
    IF isHeartbeat(context.prompt) THEN 9900
    ELSE IF isSimpleQuery(context.prompt) THEN 9000
    ELSE Max(5000, 10000 - calculateComplexity(context.prompt))

(***************************************************************************)
(* engines/llm-classifier.ts: the two-stage classifier.                    *)
(*                                                                         *)
(* A JavaScript value read from the parsed JSON is a pair [t, v]: its      *)
(* type t ("number", "array", "string", "undefined") and, for a number or  *)
(* an array, its value v.                                                  *)
(***************************************************************************)
Num(v) == [t |-> "number", v |-> v]
Arr(a) == [t |-> "array", v |-> a]
Str == [t |-> "string", v |-> 0]       \* a non-empty string that is not numeric
Missing == [t |-> "undefined", v |-> 0]

ClassificationResult(tier, conf, r, ind) ==
    [tier |-> tier, confidence |-> conf, reasoning |-> r, indicators |-> ind]

\* cache.get's null, and "no classification yet"
NoClassification == ClassificationResult("null", Missing, "", Missing)

Tiers == {"simple", "medium", "complex", "reasoning"}

\* The catch block's result.
FallbackClassification ==
    ClassificationResult("medium", Num(5000),
                         "Classification failed, using fallback",
                         Arr(<<"fallback">>))

\* What the fetch of /api/generate can come to: the fetch rejects (network
\* error), the AbortSignal fires (timeout), the status is not OK, or a body
\* arrives whose "response" text is raw (a sequence of pieces: "{", "}",
\* "fields" for the members of a record, "text" for commentary without
\* braces, "123" for a bare JSON number) and whose record members, when the
\* text parses to a record, are rec.
Response(kind, raw, rec) == [kind |-> kind, raw |-> raw, rec |-> rec]

NoFields == [tier |-> "undefined", confidence |-> Missing, reasoning |-> "",
             indicators |-> Missing]

FailureKinds == {"network-error", "timeout", "not-ok"}

\* rawResponse.match(/\{[\s\S]*\}/): greedy, from the first "{" to the last
\* "}" after it; jsonStr is the match, or the whole text without one.
ExtractJson(raw) ==
    LET opens == {i \in 1..Len(raw) : raw[i] = "{"}
        first == CHOOSE i \in opens : \A j \in opens : i <= j
        closes == {i \in 1..Len(raw) : raw[i] = "}" /\ i > first}
        last == CHOOSE i \in closes : \A j \in closes : j <= i
    IN  IF opens # {} /\ closes # {} THEN SubSeq(raw, first, last) ELSE raw

\* JSON.parse(jsonStr): a record, a primitive, or a SyntaxError.
JsonParse(jsonStr, rec) ==
    IF jsonStr = <<"{", "fields", "}">> THEN [is |-> "object", rec |-> rec]
    ELSE IF jsonStr = <<"{", "}">> THEN [is |-> "object", rec |-> NoFields]
    ELSE IF jsonStr = <<"123">> THEN [is |-> "primitive", rec |-> NoFields]
    ELSE [is |-> "SyntaxError", rec |-> NoFields]

\* "Validate result"
Validate(rec) ==
    ClassificationResult(
        IF rec.tier \in Tiers THEN rec.tier ELSE "medium",
        \* result.confidence < 0 || result.confidence > 1 is false for
        \* undefined and for a non-numeric string (NaN)
        IF rec.confidence.t = "number"
           /\ (rec.confidence.v < 0 \/ rec.confidence.v > 10000)
        THEN Num(5000) ELSE rec.confidence,
        rec.reasoning,
        rec.indicators)

\* A classifier whose catch block would answer with the lowest tier.
classifyToSimple(resp) ==
    LET parsed == JsonParse(ExtractJson(resp.raw), resp.rec)
    IN  IF resp.kind \in FailureKinds \/ parsed.is # "object"
        THEN ClassificationResult("simple", Num(5000),
                 "Classification failed, using fallback", Arr(<<"fallback">>))
        ELSE Validate(parsed.rec)

\* classifyWithLLM, from the response on.
classifyWithLLM(resp) ==
    LET parsed == JsonParse(ExtractJson(resp.raw), resp.rec)
    IN  IF resp.kind \in FailureKinds THEN FallbackClassification
        ELSE IF parsed.is = "SyntaxError" THEN FallbackClassification
        \* result.tier = "medium" on a primitive throws in strict mode
        ELSE IF parsed.is = "primitive" THEN FallbackClassification
        ELSE Validate(parsed.rec)

\* A chain built without the filter on the primary's model.
UnfilteredFallbackChain(primary) ==
    LET fallbackOrder == <<"claude-haiku", "gpt-4o-mini", "llama3.2-3b", "gemma-2b">>
        models == [i \in 1..Len(fallbackOrder) |-> getModel(fallbackOrder[i])]
    IN  Slice(SelectSeq(models, LAMBDA m : m # Undefined), 3)

\* LLMClassifierEngine.buildFallbackChain
LLMBuildFallbackChain(primary) ==
    LET fallbackOrder == <<"claude-haiku", "gpt-4o-mini", "llama3.2-3b", "gemma-2b">>
        models == [i \in 1..Len(fallbackOrder) |-> getModel(fallbackOrder[i])]
    IN  Slice(SelectSeq(models, LAMBDA m :
                  m # Undefined /\ m.model # primary.model), 3)

\* The switch on the tier.
ModelForTier(tier) ==
    CASE tier = "simple" -> OrElse(ModelAt("gemma-2b"), ModelAt("llama3.2-1b"))
      [] tier = "medium" -> OrElse(ModelAt("claude-haiku"), ModelAt("gpt-4o-mini"))
      [] tier = "complex" -> OrElse(ModelAt("claude-sonnet"), ModelAt("gpt-4o"))
      [] tier = "reasoning" -> OrElse(ModelAt("claude-opus"), ModelAt("gpt-4-turbo"))

\* A mapping that would look at the tier only.
mapTierToModel(classification, context) ==
    LET selectedModel == ModelForTier(classification.tier)
        indicators == classification.indicators
    IN  IF classification.confidence.t # "number" \/ indicators.t = "string"
        THEN Raised("TypeError")
        ELSE RoutingDecision(selectedModel,
                 (classification.confidence.v * 9) \div 10,
                 <<"LLM classified as", classification.tier,
                   classification.reasoning, "[classification: ms]">>
                 \o (IF indicators.t = "array" /\ Len(indicators.v) > 0
                     THEN <<"[indicators:">> \o indicators.v ELSE <<>>),
                 selectedModel.costPer1kTokens * 2,
                 LLMBuildFallbackChain(selectedModel))

\* mapClassificationToModel.  The rationale is the sequence of its pieces;
\* the latency in it is left out.
mapClassificationToModel(classification, context) ==
    LET explicit == getModel(context.requestedModel)
        selectedModel == ModelForTier(classification.tier)
        indicators == classification.indicators
    IN  IF context.requestedModel # "" /\ explicit # Undefined
        THEN RoutingDecision(explicit, 10000,
                 <<"Explicit model request", classification.tier>>,
                 Twice(explicit.costPer1kTokens),
                 LLMBuildFallbackChain(explicit))
        \* confidence.toFixed(2)
        ELSE IF classification.confidence.t # "number"
        THEN Raised("TypeError")
        \* indicators?.length > 0 holds of a string, which has no join
        ELSE IF indicators.t = "string"
        THEN Raised("TypeError")
        ELSE RoutingDecision(selectedModel,
                 (classification.confidence.v * 9) \div 10,
                 <<"LLM classified as", classification.tier,
                   classification.reasoning, "[classification: ms]">>
                 \o (IF indicators.t = "array" /\ Len(indicators.v) > 0
                     THEN <<"[indicators:">> \o indicators.v ELSE <<>>),
                 selectedModel.costPer1kTokens * 2,
                 LLMBuildFallbackChain(selectedModel))

\* LLMClassifierEngine.getConfidence
LLMGetConfidence(context) ==
    IF Length(context.prompt) < 20 THEN 3000
    ELSE IF Length(context.prompt) < 100 THEN 6000
    ELSE 8500

\* prompt.slice(0, n) as the words it holds, each with the number of its
\* characters kept (a word that is not the last carries its space).
RECURSIVE Prefix(_, _)
Prefix(prompt, n) ==
    IF prompt = <<>> \/ n <= 0 THEN <<>>
    ELSE LET chars == Feat(Head(prompt)).len + (IF Len(prompt) > 1 THEN 1 ELSE 0)
         IN  <<[w |-> Head(prompt), kept |-> Min(chars, n)]>>
             \o Prefix(Tail(prompt), n - chars)

\* A key that would be taken from the whole prompt.
getCacheKeyOfAll(prompt) == Prefix(prompt, Length(prompt))

\* getCacheKey: a 32-bit hash of the first 200 characters, modelled by those
\* characters themselves (the hash's collisions are not modelled).
getCacheKey(prompt) == Prefix(prompt, 200)

(***************************************************************************)
(* ClassificationCache: a Map in insertion order, here the sequence of its *)
(* entries.                                                                *)
(***************************************************************************)
CacheEntry(k, r, t) == [key |-> k, result |-> r, timestamp |-> t]

CacheHas(c, key) == \E i \in 1..Len(c) : c[i].key = key
CacheIndex(c, key) == CHOOSE i \in 1..Len(c) : c[i].key = key

\* Map.delete(key)
MapDelete(c, key) == SelectSeq(c, LAMBDA e : e.key # key)

\* A set that would add an entry also for a key already held.
MapSetAppends(c, e) == Append(c, e)

\* Map.set(key, value): a key already held keeps its place.
MapSet(c, e) ==
    IF CacheHas(c, e.key)
    THEN [c EXCEPT ![CacheIndex(c, e.key)] = e]
    ELSE Append(c, e)

\* A lookup that would never find anything.
CacheGetNothing(c, key, time) == [result |-> NoClassification, cache |-> c]

\* A lookup that would not check the age of what it finds.
CacheGetAnyAge(c, key, time) ==
    IF ~CacheHas(c, key)
    THEN [result |-> NoClassification, cache |-> c]
    ELSE [result |-> c[CacheIndex(c, key)].result, cache |-> c]

\* A lookup that would refresh what it finds, as a least-recently-used
\* cache does: the entry moves to the end with the time of the read.
CacheGetRefreshes(c, key, time) ==
    IF ~CacheHas(c, key)
    THEN [result |-> NoClassification, cache |-> c]
    ELSE IF time - c[CacheIndex(c, key)].timestamp > CacheTtlMs
    THEN [result |-> NoClassification, cache |-> MapDelete(c, key)]
    ELSE [result |-> c[CacheIndex(c, key)].result,
          cache |-> Append(MapDelete(c, key),
                           CacheEntry(key, c[CacheIndex(c, key)].result, time))]

\* ClassificationCache.get: the result (or null) and the cache afterwards.
CacheGet(c, key, time) ==
    IF ~CacheHas(c, key)
    THEN [result |-> NoClassification, cache |-> c]
    ELSE IF time - c[CacheIndex(c, key)].timestamp > CacheTtlMs
    THEN [result |-> NoClassification, cache |-> MapDelete(c, key)]
    ELSE [result |-> c[CacheIndex(c, key)].result, cache |-> c]

\* An insertion that would never evict.
CacheSetNoEviction(c, key, result, time) ==
    MapSet(c, CacheEntry(key, result, time))

\* ClassificationCache.set
CacheSet(c, key, result, time) ==
    LET added == MapSet(c, CacheEntry(key, result, time))
    IN  IF Len(added) > MaxCacheEntries
        THEN MapDelete(added, added[1].key)
        ELSE added

(***************************************************************************)
(* engines/index.ts: engines.  An engine object is a DefaultEngine, an     *)
(* LLMClassifierEngine or a custom engine written against the              *)
(* DecisionEngine interface.  id tells objects of one class apart (0: the  *)
(* exported singleton).  A custom engine has a fixed confidence hint       *)
(* (hint, when hasHint: it defines getConfidence) and decides for the      *)
(* model yields, or returns null when yields is undefined.                 *)
(***************************************************************************)
Engine(kind, id, hasHint, hint, yields) ==
    [kind |-> kind, id |-> id, hasHint |-> hasHint, hint |-> hint, yields |-> yields]

NewDefaultEngine(id) == Engine("default", id, TRUE, 0, Undefined)
NewLLMClassifierEngine(id) == Engine("llm", id, TRUE, 0, Undefined)

defaultEngine == NewDefaultEngine(0)
llmClassifierEngine == NewLLMClassifierEngine(0)

\* No engine: getEngine's undefined.
NoEngine == Engine("undefined", 0, FALSE, 0, Undefined)

\* engine.getConfidence(context), for an engine that defines it
GetConfidence(engine, context) ==
    CASE engine.kind = "default" -> DefaultGetConfidence(context)
      [] engine.kind = "llm" -> LLMGetConfidence(context)
      [] OTHER -> engine.hint

\* A custom engine's decide.
CustomDecide(engine, context) ==
    IF engine.yields = Undefined THEN Null
    ELSE RoutingDecision(engine.yields, 8000, <<"custom engine">>,
                         engine.yields.costPer1kTokens * 2, <<>>)

(***************************************************************************)
(* The state.                                                              *)
(***************************************************************************)
VARIABLES
    now,          \* Date.now()
    engines,      \* the Map name -> engine, as its entries in insertion order
    factories,    \* the Map name -> factory (the class the factory constructs)
    priorities,   \* the Map name -> priority
    created,      \* the number of engines constructed by factories so far
    invoked,      \* history: how often each registered factory has been called
    removed,      \* history: the latest unregisterEngine call and what it returned
    mutations,    \* the number of register / unregister calls so far
    enableCache,  \* options.enableCache of the two-stage classifiers
    cache,        \* the ClassificationCache of each LLMClassifierEngine, by id
    calls,        \* the requests: each one call of autoRoute, route or decide
    last,         \* history: the cache entry the latest completed direct decide used
    overflowed    \* history: some cache insertion went beyond the capacity

vars == <<now, engines, factories, priorities, created, invoked, removed, mutations,
          enableCache, cache, calls, last, overflowed>>

registry == <<engines, factories, priorities, created, invoked, removed>>

\* The requests in flight at once.
Procs == {1, 2}
\* The engines the factories may construct get the ids 1..MaxCreated.
MaxCreated == 2
\* The register / unregister calls of one run.
MaxMutations == 2
EngineIds == 0..MaxCreated

NoContext == RoutingContext(<<>>, "", "")
NoResponse == Response("none", <<>>, NoFields)
NoLast == [engine |-> 0 - 1, key |-> <<>>, classification |-> NoClassification,
           timestamp |-> 0]

(***************************************************************************)
(* server.ts: what the HTTP handlers read.  The statistics of logger.ts    *)
(* are not part of the model.                                              *)
(***************************************************************************)
\* RouterConfig, as far as the handlers read it: the engine it names and the
\* providers it has an API key for.
RouterConfig(engineName, apiKeys) ==
    [defaultEngine |-> engineName, apiKeys |-> apiKeys]

\* The JSON body of an inbound request: its prompt member (<<>> when
\* absent), the text contents of its messages, its model member and its
\* metadata.engine ("" when absent).
Body(prompt, messages, model, engine) ==
    [t |-> "object", prompt |-> prompt, messages |-> messages,
     model |-> model, engine |-> engine]

\* c.req.json read without calling it: the method itself, a function, which
\* has none of the body's members.
JsonMethod ==
    [t |-> "function", prompt |-> <<>>, messages |-> <<>>,
     model |-> "", engine |-> ""]

extractPrompt(body) ==
    IF body.t # "object" THEN <<>>
    ELSE IF body.prompt # <<>> THEN body.prompt
    ELSE IF Len(body.messages) > 0 THEN body.messages[Len(body.messages)]
    ELSE <<>>

\* buildContext: `const body = c.req.json as unknown`; no userPreferences.
buildContext(request) ==
    LET body == JsonMethod
    IN  RoutingContext(extractPrompt(body), body.model, "")

\* What a handler answers: the HTTP status and, from the decision, the
\* provider and the model (the preview's JSON, the proxy's x-router-*
\* headers).
Reply(status, provider, model) ==
    [status |-> status, provider |-> provider, model |-> model]

NoReply == Reply(0, "", "")
NoConfig == RouterConfig("", {})
NoRequest == Body(<<>>, <<>>, "", "")
\* The request the proxy sends on: its provider and the body's model member.
NoUpstream == [provider |-> "", model |-> ""]

\* A request that is not running.  op: the operation called; name: route's
\* engine name; sorted, idx: autoRoute's sortedEngines and its position in
\* it; trace: what autoRoute did with each engine so far; engine: the
\* two-stage classifier whose network call is awaited; lookup: what the
\* cache lookup found; net: the network calls issued; response: what the
\* network call came to; result: what the operation returned or raised;
\* handler: the HTTP handler that made the call ("" for a direct call), with
\* its config, its request, what it sends upstream and what it answers.
IdleCall ==
    [pc |-> "idle", op |-> "", context |-> NoContext, name |-> "",
     sorted |-> <<>>, idx |-> 0, trace |-> <<>>, engine |-> NoEngine,
     lookup |-> "none", net |-> 0, response |-> NoResponse,
     classification |-> NoClassification, result |-> Pending,
     handler |-> "", config |-> NoConfig, request |-> NoRequest,
     upstream |-> NoUpstream, reply |-> NoReply]

(***************************************************************************)
(* The registry's maps.                                                    *)
(***************************************************************************)
\* Map.set on a Map kept as a function
Put(f, k, v) == [x \in DOMAIN f \cup {k} |-> IF x = k THEN v ELSE f[x]]
\* Map.delete on a Map kept as a function
Remove(f, k) == [x \in DOMAIN f \ {k} |-> f[x]]

EngineEntry(name, engine) == [name |-> name, engine |-> engine]

EnginesHas(es, name) == \E i \in 1..Len(es) : es[i].name = name
EnginesGet(es, name) ==
    IF EnginesHas(es, name)
    THEN es[CHOOSE i \in 1..Len(es) : es[i].name = name].engine
    ELSE NoEngine
\* engines.set(name, engine): a name already held keeps its place
EnginesSet(es, name, engine) ==
    IF EnginesHas(es, name)
    THEN [es EXCEPT ![CHOOSE i \in 1..Len(es) : es[i].name = name] =
              EngineEntry(name, engine)]
    ELSE Append(es, EngineEntry(name, engine))
EnginesDelete(es, name) == SelectSeq(es, LAMBDA e : e.name # name)

\* priorities.get(name) || 0
PriorityOf(ps, name) == IF name \in DOMAIN ps THEN ps[name] ELSE 0

\* sort((a, b) => (priorities.get(b[0]) || 0) - (priorities.get(a[0]) || 0)):
\* stable, descending.  Each entry keeps the priority it was sorted by.
RECURSIVE InsertByPriority(_, _)
InsertByPriority(e, s) ==
    IF s = <<>> THEN <<e>>
    ELSE IF e.priority > Head(s).priority THEN <<e>> \o s
    ELSE <<Head(s)>> \o InsertByPriority(e, Tail(s))

RECURSIVE SortByPriority(_)
SortByPriority(s) ==
    IF s = <<>> THEN <<>>
    ELSE InsertByPriority(s[Len(s)], SortByPriority(SubSeq(s, 1, Len(s) - 1)))

\* autoRoute's sortedEngines
\* The snapshot in registration order, as it would be without the sort.
RegistrationOrder(es, ps) ==
    [i \in 1..Len(es) |->
        [name |-> es[i].name, engine |-> es[i].engine,
         priority |-> PriorityOf(ps, es[i].name)]]

\* [...engines.entries()].sort((a, b) => priority(b) - priority(a))
SortedEngines(es, ps) ==
    SortByPriority([i \in 1..Len(es) |->
        [name |-> es[i].name, engine |-> es[i].engine,
         priority |-> PriorityOf(ps, es[i].name)]])

(***************************************************************************)
(* decide, as the callers see it.  A decide of the heuristic classifier or *)
(* of a custom engine returns at once.  A decide of the two-stage          *)
(* classifier returns at once on a cache hit and otherwise suspends at its *)
(* fetch (pc = "net") until Respond.  The pc "returned" is not a state of  *)
(* its own: Resume takes the caller on from it in the same step.           *)
(***************************************************************************)
\* LLMClassifierEngine.decide up to its await: the cache check.
LLMLookup(id, context) ==
    LET got == CacheGet(cache[id], getCacheKey(context.prompt), now)
    IN  IF ~enableCache
        THEN [lookup |-> "none", cache |-> cache[id], classification |-> NoClassification]
        ELSE [lookup |-> IF got.result # NoClassification THEN "hit"
                         ELSE IF got.cache # cache[id] THEN "expired"
                         ELSE "miss",
              cache |-> got.cache,
              classification |-> got.result]

LastOf(id, key, c) ==
    [engine |-> id, key |-> key,
     classification |-> c[CacheIndex(c, key)].result,
     timestamp |-> c[CacheIndex(c, key)].timestamp]

\* engine.decide(context) for the call c: the call, the caches and the
\* history afterwards.
Decide(c, engine) ==
    LET lk == LLMLookup(engine.id, c.context)
    IN  IF engine.kind = "llm"
        THEN IF lk.lookup = "hit"
             THEN [call |-> [c EXCEPT !.pc = "returned", !.engine = engine,
                                      !.lookup = "hit",
                                      !.classification = lk.classification,
                                      !.result = mapClassificationToModel(
                                                     lk.classification, c.context)],
                   cache |-> [cache EXCEPT ![engine.id] = lk.cache],
                   last |-> LastOf(engine.id, getCacheKey(c.context.prompt),
                                   cache[engine.id])]
             ELSE [call |-> [c EXCEPT !.pc = "net", !.engine = engine,
                                      !.lookup = lk.lookup,
                                      !.net = @ + 1],
                   cache |-> [cache EXCEPT ![engine.id] = lk.cache],
                   last |-> last]
        ELSE [call |-> [c EXCEPT !.pc = "returned", !.engine = engine,
                                 !.result = IF engine.kind = "default"
                                            THEN DefaultDecide(c.context)
                                            ELSE CustomDecide(engine, c.context)],
              cache |-> cache,
              last |-> last]

\* A caller whose awaited fetch would never settle.
ResumeNeverSettles(c) ==
    CASE c.pc # "returned" -> c
      [] c.engine.kind = "llm" /\ c.lookup # "hit" -> [c EXCEPT !.pc = "net"]
      [] c.op = "route" /\ c.result = Null ->
            [c EXCEPT !.pc = "done",
                      !.result = Raised("Engine returned null decision")]
      [] c.op = "autoRoute" /\ c.result = Null ->
            [c EXCEPT !.pc = "scan", !.idx = @ + 1,
                      !.trace[Len(c.trace)].ret = Null,
                      !.result = Pending]
      [] c.op = "autoRoute" ->
            [c EXCEPT !.pc = "done", !.trace[Len(c.trace)].ret = c.result]
      [] OTHER -> [c EXCEPT !.pc = "done"]

\* An autoRoute that would read the registry again after each decide.
ResumeReadsRegistry(c) ==
    CASE c.pc # "returned" -> c
      [] c.op = "route" /\ c.result = Null ->
            [c EXCEPT !.pc = "done",
                      !.result = Raised("Engine returned null decision")]
      [] c.op = "autoRoute" /\ c.result = Null ->
            [c EXCEPT !.pc = "scan", !.idx = @ + 1,
                      !.sorted = SortedEngines(engines, priorities),
                      !.trace[Len(c.trace)].ret = Null,
                      !.result = Pending]
      [] c.op = "autoRoute" ->
            [c EXCEPT !.pc = "done", !.trace[Len(c.trace)].ret = c.result]
      [] OTHER -> [c EXCEPT !.pc = "done"]

\* A caller that would hand a null decision on instead of raising.
ResumePassesNull(c) ==
    CASE c.pc # "returned" -> c
      [] c.op = "autoRoute" /\ c.result = Null ->
            [c EXCEPT !.pc = "scan", !.idx = @ + 1,
                      !.trace[Len(c.trace)].ret = Null,
                      !.result = Pending]
      [] c.op = "autoRoute" ->
            [c EXCEPT !.pc = "done", !.trace[Len(c.trace)].ret = c.result]
      [] OTHER -> [c EXCEPT !.pc = "done"]

\* What the caller does with the value its awaited decide came to.
Resume(c) ==
    CASE c.pc # "returned" -> c
      [] c.op = "route" /\ c.result = Null ->
            [c EXCEPT !.pc = "done",
                      !.result = Raised("Engine returned null decision")]
      [] c.op = "autoRoute" /\ c.result = Null ->
            \* "if (decision) return decision": on to the next engine
            [c EXCEPT !.pc = "scan", !.idx = @ + 1,
                      !.trace[Len(c.trace)].ret = Null,
                      !.result = Pending]
      [] c.op = "autoRoute" ->
            [c EXCEPT !.pc = "done", !.trace[Len(c.trace)].ret = c.result]
      [] OTHER -> [c EXCEPT !.pc = "done"]

\* The HTTP handler of the call c, from the return of its autoRoute on.
Handle(c) ==
    LET config == c.result.config
    IN  IF c.handler = "" \/ c.pc # "done" \/ c.reply # NoReply THEN c
        \* catch (error): 500
        ELSE IF c.result.kind # "decision"
        THEN [c EXCEPT !.reply = Reply(500, "", "")]
        ELSE IF c.handler = "preview"
        THEN [c EXCEPT !.reply = Reply(200, config.provider, config.model)]
        \* "No API key configured"
        ELSE IF /\ config.provider \notin c.config.apiKeys
                /\ config.provider \notin {"ollama", "local"}
        THEN [c EXCEPT !.reply = Reply(500, "", "")]
        \* body.model = decision.config.model; await fetch(targetUrl, ...)
        ELSE [c EXCEPT !.pc = "forward",
                       !.upstream = [provider |-> config.provider,
                                     model |-> config.model]]

TraceEvent(idx, name, ev) == [idx |-> idx, name |-> name, ev |-> ev, ret |-> Pending]

(***************************************************************************)
(* The registry's operations.                                              *)
(***************************************************************************)
registerEngine(name, engine, priority) ==
    /\ engines' = EnginesSet(engines, name, engine)
    /\ priorities' = Put(priorities, name, priority)
    /\ UNCHANGED <<factories, created, invoked, removed>>

registerFactory(name, factory, priority) ==
    /\ factories' = Put(factories, name, factory)
    /\ priorities' = Put(priorities, name, priority)
    /\ invoked' = Put(invoked, name, 0)
    /\ UNCHANGED <<engines, created, removed>>

\* A call of unregisterEngine(name) that returned result.
Removal(name, result) == [name |-> name, result |-> result]
\* No call of unregisterEngine yet.
NoRemoval == Removal("", FALSE)

\* An unregister that would leave the factory behind.
unregisterKeepsFactory(name) ==
    /\ removed' = Removal(name, EnginesHas(engines, name))
    /\ engines' = EnginesDelete(engines, name)
    /\ priorities' = Remove(priorities, name)
    /\ UNCHANGED <<factories, created, invoked>>

\* listEngines(), without the versions
listEngines(es, ps) ==
    [i \in 1..Len(es) |->
        [name |-> es[i].name, priority |-> PriorityOf(ps, es[i].name)]]

\* An unregister that would answer true for every name it knew, instance
\* or factory.
unregisterAnswersKnown(name) ==
    /\ removed' = Removal(name, EnginesHas(engines, name) \/ name \in DOMAIN factories)
    /\ engines' = EnginesDelete(engines, name)
    /\ factories' = Remove(factories, name)
    /\ priorities' = Remove(priorities, name)
    /\ invoked' = Remove(invoked, name)
    /\ UNCHANGED created

\* unregisterEngine(name); engines.delete(name) returns whether the Map
\* held the name, and that is what unregisterEngine returns.
unregisterEngine(name) ==
    /\ removed' = Removal(name, EnginesHas(engines, name))
    /\ engines' = EnginesDelete(engines, name)
    /\ factories' = Remove(factories, name)
    /\ priorities' = Remove(priorities, name)
    /\ invoked' = Remove(invoked, name)
    /\ UNCHANGED created

\* factory(): the engine a factory constructs
Construct(factory, id) ==
    IF factory = "LLMClassifierEngine" THEN NewLLMClassifierEngine(id)
    ELSE NewDefaultEngine(id)

\* getEngine(name), when the name has no engine yet and has a factory
Instantiates(name) == ~EnginesHas(engines, name) /\ name \in DOMAIN factories

\* getEngine(name): the engine it returns
getEngine(name) ==
    IF EnginesHas(engines, name) THEN EnginesGet(engines, name)
    ELSE IF name \in DOMAIN factories THEN Construct(factories[name], created + 1)
    ELSE NoEngine

\* A lookup that would call the factory and not keep what it constructs.
getEngineUncached(name) ==
    IF name \in DOMAIN factories /\ ~EnginesHas(engines, name)
    THEN /\ created < MaxCreated
         /\ created' = created + 1
         /\ invoked' = Put(invoked, name, invoked[name] + 1)
         /\ UNCHANGED <<engines, factories, priorities, removed>>
    ELSE UNCHANGED registry

\* getEngine(name): what it does to the registry
getEngineEffect(name) ==
    IF Instantiates(name)
    THEN /\ created < MaxCreated
         /\ engines' = EnginesSet(engines, name, getEngine(name))
         /\ created' = created + 1
         /\ invoked' = Put(invoked, name, invoked[name] + 1)
         /\ UNCHANGED <<factories, priorities, removed>>
    ELSE UNCHANGED registry

(***************************************************************************)
(* Actions.                                                                *)
(***************************************************************************)
RegisterEngine(name, engine, priority) ==
    /\ mutations < MaxMutations
    /\ mutations' = mutations + 1
    /\ registerEngine(name, engine, priority)
    /\ UNCHANGED <<now, enableCache, cache, calls, last, overflowed>>

RegisterFactory(name, factory, priority) ==
    /\ mutations < MaxMutations
    /\ mutations' = mutations + 1
    /\ registerFactory(name, factory, priority)
    /\ UNCHANGED <<now, enableCache, cache, calls, last, overflowed>>

UnregisterEngine(name) ==
    /\ mutations < MaxMutations
    /\ mutations' = mutations + 1
    /\ unregisterEngine(name)
    /\ UNCHANGED <<now, enableCache, cache, calls, last, overflowed>>

\* A getEngine(name) that runs a factory.
GetEngine(name) ==
    /\ Instantiates(name)
    /\ getEngineEffect(name)
    /\ UNCHANGED <<now, mutations, enableCache, cache, calls, last, overflowed>>

\* route(context, engineName)
Route(p, context, name) ==
    /\ calls[p].pc = "idle"
    /\ getEngineEffect(name)
    /\ LET c == [IdleCall EXCEPT !.op = "route", !.context = context, !.name = name]
           d == Decide(c, getEngine(name))
       IN  IF getEngine(name) = NoEngine
           THEN /\ calls' = [calls EXCEPT ![p] =
                                [c EXCEPT !.pc = "done",
                                          !.result = Raised("Engine not found")]]
                /\ UNCHANGED <<cache, last>>
           ELSE /\ calls' = [calls EXCEPT ![p] = Resume(d.call)]
                /\ cache' = d.cache
                /\ UNCHANGED last
    /\ UNCHANGED <<now, mutations, enableCache, overflowed>>

\* autoRoute(context), its first statement: the sorted snapshot
AutoRouteStart(p, context) ==
    /\ calls[p].pc = "idle"
    /\ calls' = [calls EXCEPT ![p] =
                    [IdleCall EXCEPT !.pc = "scan", !.op = "autoRoute",
                                     !.context = context,
                                     !.sorted = SortedEngines(engines, priorities),
                                     !.idx = 1]]
    /\ UNCHANGED <<now, registry, mutations, enableCache, cache, last, overflowed>>

\* A gate that would also skip a hint of exactly 0.3.
SkipsAtThreshold(engine, context) ==
    engine.hasHint /\ GetConfidence(engine, context) <= 3000

\* "if (confidence < 0.3) continue"
Skips(engine, context) == engine.hasHint /\ GetConfidence(engine, context) < 3000

\* autoRoute, one turn of its loop, or the fallback after the loop
AutoRouteStep(p) ==
    LET c == calls[p]
        engine == c.sorted[c.idx].engine
        defaultDecision == DefaultDecide(c.context)
        d == Decide([c EXCEPT !.trace = Append(@, TraceEvent(c.idx, c.sorted[c.idx].name, "decide"))],
                    engine)
    IN  /\ c.pc = "scan"
        /\ IF c.idx > Len(c.sorted)
           THEN /\ calls' = [calls EXCEPT ![p] = Handle(
                       [c EXCEPT !.pc = "done",
                                 !.trace = Append(@, TraceEvent(c.idx, "<defaultEngine>", "fallback")),
                                 !.result =
                                     IF defaultDecision = Null
                                     THEN Raised("No engine could handle the request")
                                     ELSE defaultDecision])]
                /\ UNCHANGED <<cache, last>>
           ELSE IF Skips(engine, c.context)
           THEN /\ calls' = [calls EXCEPT ![p] =
                       [c EXCEPT !.idx = @ + 1,
                                 !.trace = Append(@, TraceEvent(c.idx, c.sorted[c.idx].name, "skip"))]]
                /\ UNCHANGED <<cache, last>>
           ELSE /\ calls' = [calls EXCEPT ![p] = Handle(Resume(d.call))]
                /\ cache' = d.cache
                /\ UNCHANGED last
        /\ UNCHANGED <<now, registry, mutations, enableCache, overflowed>>

\* llmClassifierEngine.decide(context), called directly
LLMDecide(p, context) ==
    /\ calls[p].pc = "idle"
    /\ LET d == Decide([IdleCall EXCEPT !.op = "decide", !.context = context],
                       llmClassifierEngine)
       IN  /\ calls' = [calls EXCEPT ![p] = Resume(d.call)]
           /\ cache' = d.cache
           /\ last' = d.last
    /\ UNCHANGED <<now, registry, mutations, enableCache, overflowed>>

\* defaultEngine.decide(context), called directly
HeuristicDecide(p, context) ==
    /\ calls[p].pc = "idle"
    /\ calls' = [calls EXCEPT ![p] =
                    Resume(Decide([IdleCall EXCEPT !.op = "decide",
                                                   !.context = context],
                                  defaultEngine).call)]
    /\ UNCHANGED <<now, registry, mutations, enableCache, cache, last, overflowed>>

\* A decide that would keep the catch block's result out of the cache.
RespondForgetsFailures(p, resp) ==
    LET c == calls[p]
        id == c.engine.id
        key == getCacheKey(c.context.prompt)
        classification == classifyWithLLM(resp)
        written == CacheSet(cache[id], key, classification, now)
    IN  /\ c.pc = "net"
        /\ calls' = [calls EXCEPT ![p] =
               Handle(Resume([c EXCEPT !.pc = "returned",
                                       !.response = resp,
                                       !.classification = classification,
                                       !.result = mapClassificationToModel(
                                                      classification, c.context)]))]
        /\ IF enableCache /\ classification # FallbackClassification
           THEN /\ cache' = [cache EXCEPT ![id] = written]
                /\ last' = IF c.op = "decide" THEN LastOf(id, key, written) ELSE last
                /\ overflowed' = (overflowed
                                  \/ Len(MapSet(cache[id],
                                         CacheEntry(key, classification, now)))
                                     > MaxCacheEntries)
           ELSE UNCHANGED <<cache, last, overflowed>>
        /\ UNCHANGED <<now, registry, mutations, enableCache>>

\* The awaited fetch settles: the rest of classifyWithLLM and of decide.
Respond(p, resp) ==
    LET c == calls[p]
        id == c.engine.id
        key == getCacheKey(c.context.prompt)
        classification == classifyWithLLM(resp)
        written == CacheSet(cache[id], key, classification, now)
    IN  /\ c.pc = "net"
        /\ calls' = [calls EXCEPT ![p] =
               Handle(Resume([c EXCEPT !.pc = "returned",
                                       !.response = resp,
                                       !.classification = classification,
                                       !.result = mapClassificationToModel(
                                                      classification, c.context)]))]
        /\ IF enableCache
           THEN /\ cache' = [cache EXCEPT ![id] = written]
                /\ last' = IF c.op = "decide" THEN LastOf(id, key, written) ELSE last
                /\ overflowed' = (overflowed
                                  \/ Len(MapSet(cache[id],
                                         CacheEntry(key, classification, now)))
                                     > MaxCacheEntries)
           ELSE UNCHANGED <<cache, last, overflowed>>
        /\ UNCHANGED <<now, registry, mutations, enableCache>>

\* The caller takes the result; the request slot is free again.
Return(p) ==
    /\ calls[p].pc = "done"
    /\ calls' = [calls EXCEPT ![p] = IdleCall]
    /\ UNCHANGED <<now, registry, mutations, enableCache, cache, last, overflowed>>

\* Time passes.
Tick ==
    /\ now < MaxTime
    /\ now' = now + 1
    /\ UNCHANGED <<registry, mutations, enableCache, cache, calls, last, overflowed>>

\* POST /preview: buildContext, then autoRoute.
Preview(p, config, request) ==
    /\ calls[p].pc = "idle"
    /\ calls' = [calls EXCEPT ![p] =
                    [IdleCall EXCEPT !.pc = "scan", !.op = "autoRoute",
                                     !.handler = "preview",
                                     !.config = config,
                                     !.request = request,
                                     !.context = buildContext(request),
                                     !.sorted = SortedEngines(engines, priorities),
                                     !.idx = 1]]
    /\ UNCHANGED <<now, registry, mutations, enableCache, cache, last, overflowed>>

\* The proxy endpoint: buildContext, the 400 for an empty prompt, then
\* autoRoute.
Proxy(p, config, request) ==
    LET context == buildContext(request)
        c == [IdleCall EXCEPT !.handler = "proxy", !.config = config,
                              !.request = request, !.context = context]
    IN  /\ calls[p].pc = "idle"
        /\ calls' = [calls EXCEPT ![p] =
               IF context.prompt = <<>>
               THEN [c EXCEPT !.pc = "done", !.reply = Reply(400, "", "")]
               ELSE [c EXCEPT !.pc = "scan", !.op = "autoRoute",
                              !.sorted = SortedEngines(engines, priorities),
                              !.idx = 1]]
        /\ UNCHANGED <<now, registry, mutations, enableCache, cache, last, overflowed>>

\* The proxy's fetch of the provider settles with an HTTP status, or fails
\* (status 0), which the catch block answers with 500.
Forward(p, status) ==
    /\ calls[p].pc = "forward"
    /\ calls' = [calls EXCEPT ![p] =
                    [@ EXCEPT !.pc = "done",
                              !.reply = IF status = 0
                                        THEN Reply(500, "", "")
                                        ELSE Reply(status, calls[p].upstream.provider,
                                                   calls[p].upstream.model)]]
    /\ UNCHANGED <<now, registry, mutations, enableCache, cache, last, overflowed>>

(***************************************************************************)
(* The initial state: the module has been imported, so initializeRegistry  *)
(* has run on the empty maps and the singletons hold empty caches.         *)
(***************************************************************************)
InitialEngines ==
    EnginesSet(EnginesSet(<<>>, "default", defaultEngine),
               "llm-classifier", llmClassifierEngine)

InitialFactories ==
    Put(Put(<<>>, "custom", "DefaultEngine"), "llm", "LLMClassifierEngine")

InitialPriorities ==
    Put(Put(Put(Put(<<>>, "default", 100), "llm-classifier", 80), "custom", 50),
        "llm", 80)

InitRegistry ==
    /\ engines = InitialEngines
    /\ factories = InitialFactories
    /\ priorities = InitialPriorities
    /\ created = 0
    /\ invoked = Put(Put(<<>>, "custom", 0), "llm", 0)
    /\ removed = NoRemoval
    /\ mutations = 0

InitRest ==
    /\ now = 0
    /\ cache = [id \in EngineIds |-> <<>>]
    /\ calls = [p \in Procs |-> IdleCall]
    /\ last = NoLast
    /\ overflowed = FALSE

\* The engines run with the default options (enableCache: true).
Init == InitRegistry /\ InitRest /\ enableCache = TRUE

\* The two-stage classifier was constructed with either value of enableCache.
InitEngine == InitRegistry /\ InitRest /\ enableCache \in BOOLEAN

(***************************************************************************)
(* Inputs.                                                                 *)
(***************************************************************************)
\* Custom engines at hand for registerEngine.
CustomEngines ==
    { Engine("custom", 11, FALSE, 0, ModelAt("gpt-4o")),       \* decides, no hint
      Engine("custom", 12, TRUE, 1000, ModelAt("gemini-pro")), \* hint 0.1
      Engine("custom", 13, TRUE, 3000, Undefined),             \* hint 0.3, null
      Engine("custom", 14, FALSE, 0, Undefined) }              \* null, no hint

Names == {"default", "llm-classifier", "custom", "llm", "mine"}

\* Records the classifier model may answer with.
Fields(tier, conf, ind) ==
    [tier |-> tier, confidence |-> conf, reasoning |-> "because", indicators |-> ind]

FailureResponses == {Response(k, <<>>, NoFields) : k \in FailureKinds}

Text(raw, rec) == Response("text", raw, rec)

\* Contexts and responses of the registry's specification.
RouteContexts ==
    { RoutingContext(<<"hi">>, "", ""),
      RoutingContext(<<"<paragraph>">>, "", "") }

RouteResponses ==
    { Text(<<"{", "fields", "}">>, Fields("complex", Num(9000), Arr(<<"kw">>))),
      Text(<<"{", "fields", "}">>, Fields("simple", Missing, Missing)) }

(***************************************************************************)
(* The registry's specification: one request at a time calls autoRoute or  *)
(* route while other code registers, unregisters and looks up engines.     *)
(***************************************************************************)
\* What other code registers while requests run.
Registrations ==
    {[engine |-> e, priority |-> 120] : e \in CustomEngines}
    \cup {[engine |-> Engine("custom", 11, FALSE, 0, ModelAt("gpt-4o")),
           priority |-> 90]}

Next ==
    \/ \E r \in Registrations : RegisterEngine("mine", r.engine, r.priority)
    \/ RegisterEngine("llm-classifier", llmClassifierEngine, 120)
    \/ RegisterFactory("mine", "LLMClassifierEngine", 60)
    \/ \E name \in Names : UnregisterEngine(name)
    \/ \E name \in Names : GetEngine(name)
    \/ \E context \in RouteContexts, name \in {"llm-classifier", "custom", "mine"} :
           Route(1, context, name)
    \/ \E context \in RouteContexts : AutoRouteStart(1, context)
    \/ AutoRouteStep(1)
    \/ \E resp \in RouteResponses : Respond(1, resp)
    \/ Return(1)

Spec == Init /\ [][Next]_vars

(***************************************************************************)
(* The classifiers' specification: one caller at a time calls decide of    *)
(* the heuristic classifier or of the two-stage classifier, over every     *)
(* prompt of up to MaxWords words, every model request and every answer of *)
(* the classification call.                                                *)
(***************************************************************************)
Prompts == UNION {[1..n -> Words] : n \in 0..MaxWords}

\* requestedModel: absent, each alias, a wire name, a name the catalog lacks
RequestedModels == {""} \cup Aliases \cup {"gpt-4o-codex", "no-such-model"}

PreferredProviders == {"", "anthropic", "openai", "ollama", "google", "local"}

HeuristicContexts ==
    {RoutingContext(p, m, pp) :
        p \in Prompts, m \in RequestedModels, pp \in PreferredProviders}

LLMContexts ==
    {RoutingContext(<<"explain">>, m, "") :
        m \in {"", "claude-haiku", "gpt-4o-mini", "no-such-model"}
                 \cup InheritedKeys}

\* Requests to the heuristic classifier for a model named like a member of
\* Object.prototype.
InheritedContexts ==
    {RoutingContext(p, m, pp) :
        p \in {<<>>, <<"hi">>, <<"explain">>, <<"const">>},
        m \in InheritedKeys, pp \in {"", "openai"}}

RawTexts ==
    { <<>>,
      <<"text">>,
      <<"123">>,
      <<"{", "fields">>,
      <<"{", "}">>,
      <<"{", "fields", "}">>,
      <<"text", "{", "fields", "}", "text">>,
      <<"{", "fields", "}", "text", "{", "}">> }

AllFields ==
    {Fields(tier, conf, ind) :
        tier \in Tiers \cup {"bogus", "undefined"},
        conf \in {Num(9000), Num(15000), Num(0 - 1000), Missing, Str},
        ind \in {Missing, Arr(<<"kw">>), Str}}

\* The record members matter only when the text parses to a record of them.
Responses ==
    FailureResponses
    \cup UNION {
           IF JsonParse(ExtractJson(raw), NoFields).is = "object"
              /\ JsonParse(ExtractJson(raw), Fields("x", Str, Missing)).rec # NoFields
           THEN {Text(raw, rec) : rec \in AllFields}
           ELSE {Text(raw, NoFields)} : raw \in RawTexts}

\* The heuristic classifier reads no state: its calls are explored from the
\* empty cache only.
NextDecide ==
    \/ /\ calls[1].pc = "idle"
       /\ cache[0] = <<>>
       /\ \E context \in HeuristicContexts \cup InheritedContexts :
              HeuristicDecide(1, context)
    \/ /\ calls[1].pc = "idle"
       /\ \E context \in LLMContexts : LLMDecide(1, context)
    \/ /\ calls[1].pc = "net"
       /\ \E resp \in Responses : Respond(1, resp)
    \/ Return(1)

SpecDecide == InitEngine /\ [][NextDecide]_vars

(***************************************************************************)
(* The cache's specification: concurrent requests call decide of the       *)
(* two-stage classifier on one more prompt than the cache holds, while     *)
(* time passes.                                                            *)
(***************************************************************************)
CachePrompts ==
    Slice(<< <<"explain">>, <<"const">>, <<"revenue">>, <<"imagine">>, <<"lorem">> >>,
          MaxCacheEntries + 1)

CacheContexts == {RoutingContext(CachePrompts[i], "", "") : i \in 1..Len(CachePrompts)}

CacheResponses ==
    { Response("timeout", <<>>, NoFields),
      Text(<<"{", "fields", "}">>, Fields("complex", Num(9000), Arr(<<"kw">>))) }

NextCache ==
    \/ \E p \in Procs, context \in CacheContexts : LLMDecide(p, context)
    \/ \E p \in Procs, resp \in CacheResponses : Respond(p, resp)
    \/ \E p \in Procs : Return(p)
    \/ Tick

SpecCache == InitEngine /\ [][NextCache]_vars

(***************************************************************************)
(* Properties of autoRoute (specification Spec).                           *)
(***************************************************************************)
AutoRouteCalls == {p \in Procs : calls[p].op = "autoRoute"}

\* C1: within one autoRoute call the engines are taken one at a time in the
\* order of the sorted snapshot, which is by descending priority; every
\* decide before the last one returned null, and a decide that returns a
\* decision ends the call with exactly that decision, so that no engine
\* after it in the order is invoked.
C1_DescendingShortCircuit ==
    \A p \in AutoRouteCalls :
        LET c == calls[p]
            n == Len(c.trace)
        IN  /\ \A i, j \in 1..Len(c.sorted) :
                   i < j => c.sorted[i].priority >= c.sorted[j].priority
            /\ \A k \in 1..n : c.trace[k].idx = k
            /\ \A k \in 1..n :
                   k <= Len(c.sorted) => c.trace[k].name = c.sorted[k].name
            /\ \A k \in 1..(n - 1) :
                   c.trace[k].ev = "decide" => c.trace[k].ret = Null
            /\ \A k \in 1..n :
                   (c.trace[k].ev = "decide" /\ c.trace[k].ret.kind = "decision")
                   => (k = n /\ c.pc = "done" /\ c.result = c.trace[k].ret)

\* An engine of priority 120 returned null, the engine of priority 100 after
\* it decided, and the engine of priority 80 was never invoked.
C1_Witness ==
    \E p \in AutoRouteCalls :
        LET c == calls[p]
        IN  /\ c.pc = "done"
            /\ Len(c.sorted) = 3
            /\ c.sorted[1].priority = 120
            /\ c.sorted[2].priority = 100
            /\ c.sorted[3].priority = 80
            /\ Len(c.trace) = 2
            /\ c.trace[1].ev = "decide" /\ c.trace[1].ret = Null
            /\ c.trace[2].ev = "decide" /\ c.trace[2].ret.kind = "decision"
            /\ c.result = c.trace[2].ret

\* C2: an engine whose confidence hint for the context is below 0.3 is
\* skipped without a decide and the scan goes on to the next engine; an
\* engine whose hint is 0.3 or more, or that has no hint, is decided when
\* the scan reaches it.
C2_ConfidenceGating ==
    \A p \in AutoRouteCalls :
        LET c == calls[p]
        IN  /\ \A k \in 1..Len(c.trace) :
                   k <= Len(c.sorted) =>
                       LET e == c.sorted[k].engine
                       IN  IF e.hasHint /\ GetConfidence(e, c.context) < 3000
                           THEN c.trace[k].ev = "skip" /\ c.trace[k].ret = Pending
                           ELSE c.trace[k].ev = "decide"
            /\ c.pc = "scan" => c.idx = Len(c.trace) + 1

\* An engine with hint 0.1 was skipped and the next engine was decided; or
\* an engine with hint exactly 0.3 was decided.
C2_Witness ==
    \E p \in AutoRouteCalls :
        LET c == calls[p]
        IN  /\ Len(c.trace) >= 2
            /\ c.sorted[1].engine.hasHint /\ c.sorted[1].engine.hint = 1000
            /\ c.trace[1].ev = "skip"
            /\ c.trace[2].ev = "decide"

\* C3 (as claimed): every autoRoute call that ends returns a decision.
C3_AlwaysReturnsDecision ==
    \A p \in AutoRouteCalls :
        calls[p].pc = "done" => calls[p].result.kind = "decision"

\* What does hold of autoRoute's own fallback: when the scan is exhausted the
\* call returns the heuristic classifier's decision, and "No engine could
\* handle the request" is never raised.
AutoRouteFallbackDecides ==
    \A p \in AutoRouteCalls :
        LET c == calls[p]
        IN  /\ c.result # Raised("No engine could handle the request")
            /\ (c.pc = "done" /\ c.trace[Len(c.trace)].ev = "fallback")
                   => c.result = DefaultDecide(c.context)

(***************************************************************************)
(* Properties of the classifiers' decide (specification SpecDecide).       *)
(***************************************************************************)
\* Direct decide calls of the two-stage classifier that have ended.
LLMDone ==
    {p \in Procs : /\ calls[p].op = "decide"
                   /\ calls[p].engine.kind = "llm"
                   /\ calls[p].pc = "done"}

\* Direct decide calls of the heuristic classifier that have ended.
HeuristicDone ==
    {p \in Procs : /\ calls[p].op = "decide"
                   /\ calls[p].engine.kind = "default"
                   /\ calls[p].pc = "done"}

\* The classification call of c failed: it rejected, timed out, answered
\* with a status that is not OK, or answered with text that does not parse.
CallFailed(c) ==
    /\ c.lookup # "hit"
    /\ \/ c.response.kind \in FailureKinds
       \/ JsonParse(ExtractJson(c.response.raw), c.response.rec).is = "SyntaxError"

\* C4 (as claimed): whatever the classification call comes to, decide of
\* the two-stage classifier ends with a RoutingDecision and never raises.
C4_DecideNeverRaises ==
    \A p \in LLMDone : calls[p].result.kind = "decision"

\* What does hold: decide raises only on an answer that parsed to a record
\* whose confidence is not a number or whose indicators are a string, and
\* only when no explicit model request resolved.
DecideRaisesOnlyOnIllTypedRecord ==
    \A p \in LLMDone :
        LET c == calls[p]
        IN  c.result.kind # "decision" =>
                /\ c.result = Raised("TypeError")
                /\ getModel(c.context.requestedModel) = Undefined
                /\ \/ c.classification.confidence.t # "number"
                   \/ c.classification.indicators.t = "string"

\* C5: when the classification call times out, errors, is not OK or its
\* text fails to parse, the classification is exactly medium / 0.5 /
\* ["fallback"]; without a model request the decision is claude-haiku (the
\* medium tier's model) and its rationale contains "fallback".
C5_FailureFallsBackToMedium ==
    \A p \in LLMDone :
        LET c == calls[p]
        IN  CallFailed(c) =>
                /\ c.classification.tier = "medium"
                /\ c.classification.confidence = Num(5000)
                /\ c.classification.indicators = Arr(<<"fallback">>)
                /\ c.context.requestedModel = "" =>
                       /\ c.result.kind = "decision"
                       /\ c.result.config = OrElse(ModelAt("claude-haiku"),
                                                   ModelAt("gpt-4o-mini"))
                       /\ c.result.config.alias = "claude-haiku"
                       /\ \E i \in 1..Len(c.result.reasoning) :
                              c.result.reasoning[i] = "fallback"
                       /\ \E i \in 1..Len(c.result.reasoning) :
                              c.result.reasoning[i]
                                  = "Classification failed, using fallback"

\* The call timed out and decide returned claude-haiku with the fallback
\* rationale.
C5_Witness ==
    \E p \in LLMDone :
        LET c == calls[p]
        IN  /\ c.response.kind = "timeout"
            /\ c.context.requestedModel = ""
            /\ c.classification = FallbackClassification
            /\ c.result.kind = "decision"
            /\ c.result.config.alias = "claude-haiku"
            /\ c.result.confidence = 4500

\* C10: no decision of the heuristic classifier or of the two-stage
\* classifier has a fallback chain that holds a model with the wire name
\* of the chosen model.
C10_ChainExcludesChosen ==
    \A p \in LLMDone \cup HeuristicDone :
        LET r == calls[p].result
        IN  r.kind = "decision" =>
                \A i \in 1..Len(r.fallbackChain) :
                    r.fallbackChain[i].model # r.config.model

\* The two-stage classifier chose claude-haiku, the first model of its
\* fallback order, and the chain is what is left of the order.
C10_Witness ==
    \E p \in LLMDone :
        LET r == calls[p].result
        IN  /\ r.kind = "decision"
            /\ r.config.alias = "claude-haiku"
            /\ Len(r.fallbackChain) = 2
            /\ r.fallbackChain[1].alias = "gpt-4o-mini"
            /\ r.fallbackChain[2].alias = "gemma-2b"

(***************************************************************************)
(* Properties of the classification cache (specification SpecCache).       *)
(* last is the decide call of the exported two-stage classifier that       *)
(* completed most recently: its fingerprint, the classification it used    *)
(* and the insertion time of the entry that holds it.                      *)
(***************************************************************************)
\* In this step request p calls decide of the two-stage classifier.
StartsDecide(p) ==
    /\ calls[p].pc = "idle"
    /\ calls'[p].pc # "idle"
    /\ calls'[p].op = "decide"
    /\ calls'[p].engine.kind = "llm"

KeyOf(c) == getCacheKey(c.context.prompt)

\* C6: with caching enabled, a decide that starts after the previous decide
\* on the same prompt has completed, and within the TTL of its entry, uses
\* the identical classification and makes no network call.
C6_SecondCallHitsCache ==
    [][\A p \in Procs :
          (/\ StartsDecide(p)
           /\ enableCache
           /\ last # NoLast
           /\ KeyOf(calls'[p]) = last.key
           /\ now - last.timestamp <= CacheTtlMs)
          => /\ calls'[p].lookup = "hit"
             /\ calls'[p].classification = last.classification
             /\ calls'[p].net = 0
             /\ calls'[p].pc = "done"
             /\ cache' = cache]_vars

\* A decide ended on a cache hit with the classification of the decide
\* before it on the same prompt, without a network call.
C6_Witness ==
    \E p \in Procs :
        /\ calls[p].op = "decide"
        /\ calls[p].pc = "done"
        /\ calls[p].lookup = "hit"
        /\ calls[p].net = 0
        /\ enableCache
        /\ last.key = KeyOf(calls[p])
        /\ calls[p].classification = last.classification
        /\ calls[p].classification.tier = "complex"

\* C7: a decide whose lookup finds an entry inserted at T at a time later
\* than T + ttl removes the entry and issues a fresh classification call.
C7_ExpiredEntryEvictedOnRead ==
    [][\A p \in Procs :
          (/\ StartsDecide(p)
           /\ enableCache
           /\ CacheHas(cache[0], KeyOf(calls'[p]))
           /\ now > cache[0][CacheIndex(cache[0], KeyOf(calls'[p]))].timestamp
                    + CacheTtlMs)
          => /\ ~CacheHas(cache'[0], KeyOf(calls'[p]))
             /\ Len(cache'[0]) = Len(cache[0]) - 1
             /\ calls'[p].lookup = "expired"
             /\ calls'[p].pc = "net"
             /\ calls'[p].net = 1]_vars

\* A decide found its entry expired, removed it and awaits a fresh call.
C7_Witness ==
    \E p \in Procs :
        /\ calls[p].op = "decide"
        /\ calls[p].lookup = "expired"
        /\ calls[p].pc = "net"
        /\ calls[p].net = 1
        /\ ~CacheHas(cache[0], KeyOf(calls[p]))

\* C8: after every insertion, also from interleaved decide calls, the cache
\* holds at most the maximum number of entries.
C8_CacheBounded ==
    \A id \in DOMAIN cache : Len(cache[id]) <= MaxCacheEntries

\* An insertion went beyond the capacity and the cache is at its maximum.
C8_Witness ==
    /\ overflowed
    /\ Len(cache[0]) = MaxCacheEntries
    /\ \E p \in Procs : calls[p].pc = "done" /\ calls[p].lookup = "miss"

\* The entries the step removes from the cache of the exported classifier
\* while it adds a key the cache did not hold.
EvictedByInsertion ==
    {i \in 1..Len(cache[0]) :
        /\ ~CacheHas(cache'[0], cache[0][i].key)
        /\ \E j \in 1..Len(cache'[0]) : ~CacheHas(cache[0], cache'[0][j].key)}

\* C9 (as claimed): the entry evicted by an insertion beyond capacity has
\* the oldest insertion timestamp among the entries held.
C9_EvictsOldestTimestamp ==
    [][\A i \in EvictedByInsertion :
          \A j \in 1..Len(cache[0]) :
              cache[0][i].timestamp <= cache[0][j].timestamp]_vars

\* What does hold: the entry evicted is the one whose key was first
\* inserted, the first key of the Map.
EvictsFirstKey ==
    [][\A i \in EvictedByInsertion : i = 1]_vars

\* C11 (as claimed): every decision of the heuristic classifier or of the
\* two-stage classifier has a fallback chain of at most 3 entries.
C11_ChainAtMostThree ==
    \A p \in LLMDone \cup HeuristicDone :
        calls[p].result.kind = "decision"
            => Len(calls[p].result.fallbackChain) <= 3

\* What does hold: the two-stage classifier's chain has at most 3 entries
\* (its slice(0, 3)), the heuristic classifier's at most 4: two of the
\* chosen model's provider and the two local models.
ChainAtMostThreeOrFour ==
    /\ \A p \in LLMDone :
           calls[p].result.kind = "decision"
               => Len(calls[p].result.fallbackChain) <= 3
    /\ \A p \in HeuristicDone :
           Len(calls[p].result.fallbackChain) <= 4

(***************************************************************************)
(* The built-in registrations' specification: one request at a time calls  *)
(* autoRoute on the registry as initializeRegistry leaves it, over every   *)
(* prompt of up to MaxWords words, every model request and every preferred *)
(* provider.  The heuristic classifier comes first (priority 100) and     *)
(* always decides, so no call gets to the two-stage classifier's fetch.    *)
(***************************************************************************)
NextAuto ==
    \/ /\ calls[1].pc = "idle"
       /\ \E context \in HeuristicContexts : AutoRouteStart(1, context)
    \/ AutoRouteStep(1)
    \/ Return(1)

SpecAuto == Init /\ [][NextAuto]_vars

RouteStarts(p) == calls[p].pc = "idle" /\ calls'[p].op = "route"

\* The name resolves to an instance or to a factory.
Known(name) == EnginesHas(engines, name) \/ name \in DOMAIN factories

\* What the decide of the engine of call c came to.
EngineOutcome(c) ==
    IF c.engine.kind = "llm"
    THEN mapClassificationToModel(c.classification, c.context)
    ELSE IF c.engine.kind = "default" THEN DefaultDecide(c.context)
    ELSE CustomDecide(c.engine, c.context)

LooksUp(name) ==
    \/ /\ calls' = calls
       /\ mutations' = mutations
       /\ created' # created
       /\ ~EnginesHas(engines, name) /\ EnginesHas(engines', name)
    \/ \E p \in Procs : RouteStarts(p) /\ calls'[p].name = name

AutoRouteStarts(p) == calls[p].pc = "idle" /\ calls'[p].op = "autoRoute"

\* The names of the snapshot a call iterates.
SnapshotNames(c) == {c.sorted[k].name : k \in 1..Len(c.sorted)}

\* C15 (as claimed): the snapshot of an autoRoute call holds every current
\* registration, also a factory that has not been looked up yet.
C15_SnapshotHoldsFactories ==
    [][\A p \in Procs :
          AutoRouteStarts(p) =>
              \A name \in Names :
                  Known(name) => name \in SnapshotNames(calls'[p])]_vars

\* What does hold: the snapshot is the instantiated engines, one entry for
\* each, and a name that has only a factory is not in it.
SnapshotIsInstances ==
    [][\A p \in Procs :
          AutoRouteStarts(p) =>
              /\ Len(calls'[p].sorted) = Len(engines)
              /\ \A name \in Names :
                     name \in SnapshotNames(calls'[p]) <=> EnginesHas(engines, name)
              /\ \A k \in 1..Len(calls'[p].sorted) :
                     calls'[p].sorted[k].engine
                         = EnginesGet(engines, calls'[p].sorted[k].name)]_vars

\* The factories and priorities registrations are made with.
FactoryClasses == {"DefaultEngine", "LLMClassifierEngine"}
RegisteredPriorities == {r.priority : r \in Registrations} \cup {60}
RegisteredEngines == CustomEngines \cup {llmClassifierEngine}

\* This step is registerEngine(name, e, p): afterwards get(name) is e, the
\* priority of name is p, and the same call again would change nothing.
RegisterEngineReplaces(name) ==
    \A e \in RegisteredEngines, p \in RegisteredPriorities :
        (mutations' # mutations /\ registerEngine(name, e, p)) =>
            /\ getEngine(name)' = e
            /\ PriorityOf(priorities', name) = p
            /\ EnginesSet(engines', name, e) = engines'
            /\ Put(priorities', name, p) = priorities'

\* C16 (as claimed): registerEngine and registerFactory insert or replace:
\* after registerFactory(name, f, p), in any prior state of the registry,
\* get(name) is an engine constructed by f and the priority of name is p;
\* after registerEngine(name, e, p), get(name) is e with priority p; the
\* same call again leaves the registry unchanged.
C16_RegisterInsertsOrReplaces ==
    [][\A name \in Names :
          /\ RegisterEngineReplaces(name)
          /\ \A f \in FactoryClasses, p \in RegisteredPriorities :
                 (mutations' # mutations /\ registerFactory(name, f, p)) =>
                     /\ getEngine(name)' = Construct(f, created' + 1)
                     /\ PriorityOf(priorities', name) = p
                     /\ Put(factories', name, f) = factories'
                     /\ Put(priorities', name, p) = priorities']_vars

\* What does hold: registerEngine replaces; registerFactory replaces the
\* factory and the priority, and get(name) is an engine constructed by f
\* only if name had no instance: an instance registered or constructed
\* before stays what get(name) returns.
RegisterFactoryKeepsInstance ==
    [][\A name \in Names :
          /\ RegisterEngineReplaces(name)
          /\ \A f \in FactoryClasses, p \in RegisteredPriorities :
                 (mutations' # mutations /\ registerFactory(name, f, p)) =>
                     /\ getEngine(name)' =
                            IF EnginesHas(engines, name)
                            THEN EnginesGet(engines, name)
                            ELSE Construct(f, created' + 1)
                     /\ PriorityOf(priorities', name) = p
                     /\ Put(factories', name, f) = factories'
                     /\ Put(priorities', name, p) = priorities']_vars

\* The names listEngines() gives in the state after the step.
ListedNext == {listEngines(engines', priorities')[i].name : i \in 1..Len(engines')}

\* The registrations of the names other than name are the same after the
\* step: their instances in the same order, factories and priorities.
OthersUnchanged(name) ==
    /\ engines' = EnginesDelete(engines, name)
    /\ \A other \in (DOMAIN factories) \ {name} :
           other \in DOMAIN factories' /\ factories'[other] = factories[other]
    /\ \A other \in (DOMAIN priorities) \ {name} :
           other \in DOMAIN priorities' /\ priorities'[other] = priorities[other]
    /\ DOMAIN factories' \subseteq DOMAIN factories
    /\ DOMAIN priorities' \subseteq DOMAIN priorities

\* C17: after unregisterEngine(name) the instance, the factory and the
\* priority of name are gone: get(name) is absent, listEngines omits name,
\* and the registrations of every other name are unchanged; a route to a
\* name that has neither instance nor factory raises, and an autoRoute that
\* starts while name is unregistered does not have it in its snapshot.
C17_UnregisterRemovesAll ==
    [][/\ \A name \in Names :
              (mutations' # mutations /\ unregisterEngine(name)) =>
                  /\ getEngine(name)' = NoEngine
                  /\ ~EnginesHas(engines', name)
                  /\ name \notin DOMAIN factories'
                  /\ name \notin DOMAIN priorities'
                  /\ name \notin ListedNext
                  /\ OthersUnchanged(name)
       /\ \A p \in Procs :
              /\ (RouteStarts(p) /\ ~Known(calls'[p].name)) =>
                     /\ calls'[p].pc = "done"
                     /\ calls'[p].result = Raised("Engine not found")
              /\ AutoRouteStarts(p) =>
                     \A name \in Names :
                         ~Known(name) => name \notin SnapshotNames(calls'[p])]_vars

\* "default" has been unregistered, and an autoRoute call that started
\* afterwards has ended without consulting it: the two-stage classifier,
\* now the first of the snapshot, has decided.
C17_Witness ==
    /\ ~Known("default")
    /\ "default" \notin DOMAIN priorities
    /\ \E p \in AutoRouteCalls :
           /\ calls[p].pc = "done"
           /\ "default" \notin SnapshotNames(calls[p])
           /\ calls[p].trace[1].name = "llm-classifier"
           /\ calls[p].trace[1].ev = "decide"
           /\ calls[p].result.kind = "decision"

\* C18: an autoRoute call in flight keeps the snapshot it took when it
\* started: a step that changes the registry changes nothing of the call,
\* each engine it takes is the one at its position in that snapshot, in the
\* snapshot's order, whatever the registry holds by then, and the call
\* fails only with what a decide of a snapshot engine raised.
C18_SnapshotIsolation ==
    [][\A p \in Procs :
          (calls[p].op = "autoRoute" /\ calls'[p].op = "autoRoute") =>
              LET c == calls[p]
                  d == calls'[p]
              IN  /\ d.sorted = c.sorted
                  /\ d.context = c.context
                  /\ registry' # registry => d = c
                  /\ \A k \in 1..Len(d.trace) :
                         k <= Len(d.sorted) => d.trace[k].name = d.sorted[k].name
                  /\ Len(d.trace) > Len(c.trace) =>
                         /\ Len(d.trace) = Len(c.trace) + 1
                         /\ d.trace[Len(d.trace)].idx = c.idx
                  /\ d.engine # c.engine => d.engine = c.sorted[c.idx].engine
                  /\ d.result.kind = "raised" =>
                         /\ d.engine \in {c.sorted[k].engine : k \in 1..Len(c.sorted)}
                         /\ d.result = EngineOutcome(d)]_vars

\* An autoRoute call is suspended at the fetch of the two-stage classifier,
\* which was in its snapshot and has been unregistered in the meantime.
C18_Witness ==
    \E p \in AutoRouteCalls :
        /\ calls[p].pc = "net"
        /\ "llm-classifier" \in SnapshotNames(calls[p])
        /\ calls[p].trace[Len(calls[p].trace)].name = "llm-classifier"
        /\ calls[p].engine = llmClassifierEngine
        /\ ~Known("llm-classifier")

(***************************************************************************)
(* Properties of concurrent decide calls (specification SpecCache).        *)
(***************************************************************************)
\* Request p is a decide that missed the cache and made its own fetch.
Missed(p) ==
    /\ calls[p].op = "decide"
    /\ calls[p].pc \in {"net", "done"}
    /\ calls[p].lookup \in {"miss", "expired"}

\* The positions of the entries of cache c for key.
EntriesFor(c, key) == {i \in 1..Len(c) : c[i].key = key}

\* C19: two decide calls on one fingerprint that both missed the cache each
\* make their own network call and each write their result; whenever one of
\* them completes, the cache holds exactly one entry for the fingerprint,
\* with the result just written (the later write when it is the second to
\* complete), and no more than the maximum number of entries.
C19_LastWriteWins ==
    [][/\ \A p, q \in Procs :
              (p # q /\ Missed(p) /\ Missed(q) /\ KeyOf(calls[p]) = KeyOf(calls[q]))
                  => calls[p].net = 1 /\ calls[q].net = 1
       /\ \A p \in Procs :
              (enableCache /\ calls[p].pc = "net" /\ calls'[p].pc = "done") =>
                  LET key == KeyOf(calls[p])
                      held == EntriesFor(cache'[0], key)
                  IN  /\ Cardinality(held) = 1
                      /\ \A i \in held :
                             /\ cache'[0][i].result = calls'[p].classification
                             /\ cache'[0][i].timestamp = now
                      /\ Len(cache'[0]) <= MaxCacheEntries
                      /\ last'.key = key
                      /\ last'.classification = calls'[p].classification]_vars

\* Two decide calls on one fingerprint both missed, made a network call
\* each and came to different classifications; both have completed and the
\* one entry of the fingerprint holds the classification written last.
C19_Witness ==
    /\ enableCache
    /\ \A p \in Procs : Missed(p) /\ calls[p].pc = "done" /\ calls[p].net = 1
    /\ calls[1].lookup = "miss" /\ calls[2].lookup = "miss"
    /\ KeyOf(calls[1]) = KeyOf(calls[2])
    /\ calls[1].classification # calls[2].classification
    /\ Cardinality(EntriesFor(cache[0], KeyOf(calls[1]))) = 1
    /\ \A i \in EntriesFor(cache[0], KeyOf(calls[1])) :
           cache[0][i].result = last.classification

(***************************************************************************)
(* The specification for termination: one request at a time calls decide   *)
(* of the two-stage classifier or autoRoute, while the built-in engines    *)
(* are unregistered.  The event loop resumes a call that is not waiting    *)
(* for the network, and the fetch settles: it answers, fails, or is        *)
(* aborted by AbortSignal.timeout(timeoutMs).                              *)
(***************************************************************************)
LiveResponses == RouteResponses \cup {Response("timeout", <<>>, NoFields)}

NextLive ==
    \/ \E context \in RouteContexts : LLMDecide(1, context)
    \/ \E context \in RouteContexts : AutoRouteStart(1, context)
    \/ AutoRouteStep(1)
    \/ \E resp \in LiveResponses : Respond(1, resp)
    \/ Return(1)
    \/ \E name \in {"default", "llm-classifier"} : UnregisterEngine(name)

Settles == \E resp \in LiveResponses : Respond(1, resp)

SpecLive ==
    /\ Init
    /\ [][NextLive]_vars
    /\ WF_vars(AutoRouteStep(1))
    /\ WF_vars(Settles)

\* C20: every decide call of the two-stage classifier and every autoRoute
\* call eventually completes; its only wait is the network call, and when
\* that is aborted at the timeout the decide returns a decision.
C20_CallsComplete ==
    /\ (calls[1].pc \in {"scan", "net"}) ~> (calls[1].pc = "done")
    /\ [](calls[1].pc \in {"idle", "scan", "net", "done"})
    /\ []((calls[1].pc = "done" /\ calls[1].response.kind = "timeout")
              => calls[1].result.kind = "decision")

\* An autoRoute call was suspended at the network call, which timed out,
\* and has completed with the failure path's decision.
C20_Witness ==
    /\ calls[1].op = "autoRoute"
    /\ calls[1].pc = "done"
    /\ calls[1].net = 1
    /\ calls[1].response.kind = "timeout"
    /\ calls[1].classification = FallbackClassification
    /\ calls[1].result.kind = "decision"

(***************************************************************************)
(* Properties of the heuristic classifier's branches (specification        *)
(* SpecDecide).                                                            *)
(***************************************************************************)
\* C21: for every prompt matching the heartbeat pattern, whatever model is
\* requested and whatever provider is preferred, the heuristic classifier
\* returns the free local model gemma:2b with confidence 0.99 and an empty
\* fallback chain.
C21_HeartbeatIsLocalAndCertain ==
    \A p \in HeuristicDone :
        LET c == calls[p]
        IN  isHeartbeat(c.context.prompt) =>
                /\ c.result.kind = "decision"
                /\ c.result.config.model = "gemma:2b"
                /\ c.result.config.provider = "ollama"
                /\ c.result.config.costPer1kTokens = 0
                /\ c.result.estimatedCost = 0
                /\ c.result.confidence = 9900
                /\ c.result.fallbackChain = <<>>

\* A heartbeat that also greets, asks for claude-opus and prefers openai was
\* answered with gemma:2b at 0.99 and no fallbacks.
C21_Witness ==
    \E p \in HeuristicDone :
        LET c == calls[p]
        IN  /\ c.context.prompt = <<"hi", "HEARTBEAT_OK">>
            /\ c.context.requestedModel = "claude-opus"
            /\ c.context.preferredProvider = "openai"
            /\ c.result.kind = "decision"
            /\ c.result.config.alias = "gemma-2b"
            /\ c.result.confidence = 9900
            /\ c.result.fallbackChain = <<>>

\* The names under which the catalog holds a model: the aliases and the
\* wire names.
CatalogNames == Aliases \cup {MODELS[i].model : i \in 1..Len(MODELS)}

\* The call's prompt is neither a heartbeat nor a greeting: decide scores it.
Scored(c) == ~isHeartbeat(c.context.prompt) /\ ~isSimpleQuery(c.context.prompt)

C23_ExplicitConfidenceIsOne ==
    \A p \in HeuristicDone :
        LET c == calls[p]
        IN  (c.context.requestedModel \in CatalogNames /\ Scored(c)) =>
                /\ c.result.confidence = 10000
                /\ c.result.reasoning = <<"Explicit model request">>

\* What does hold: the rationale is the explicit-request rationale, and the
\* confidence is the score-derived max(0.5, 1 - score/200), which is 1.0
\* only for a score of 0.
ExplicitKeepsScoredConfidence ==
    \A p \in HeuristicDone :
        LET c == calls[p]
        IN  (c.context.requestedModel \in CatalogNames /\ Scored(c)) =>
                /\ c.result.reasoning = <<"Explicit model request">>
                /\ c.result.confidence
                       = Max(5000, 10000 - calculateComplexity(c.context.prompt))
                /\ c.result.confidence = 10000
                       <=> calculateComplexity(c.context.prompt) = 0

(***************************************************************************)
(* Properties of the two-stage classifier's explicit override              *)
(* (specification SpecDecide).                                             *)
(***************************************************************************)
\* C24: when the requested model is in the catalog, the two-stage
\* classifier's decision selects exactly that model with confidence 1.0,
\* whatever tier and confidence the classification has, be it fresh, read
\* from the cache or the failure path's fallback.
C24_LLMExplicitOverride ==
    \A p \in LLMDone :
        LET c == calls[p]
            m == c.context.requestedModel
        IN  m \in CatalogNames =>
                /\ c.result.kind = "decision"
                /\ c.result.config \in SeqToSet(MODELS)
                /\ c.result.config.alias = m \/ c.result.config.model = m
                /\ c.result.confidence = 10000

\* gpt-4o-mini was requested; the classification came from the cache, says
\* reasoning (whose model is claude-opus) and carries no numeric
\* confidence; the decision is gpt-4o-mini at 1.0.
C24_Witness ==
    \E p \in LLMDone :
        LET c == calls[p]
        IN  /\ c.context.requestedModel = "gpt-4o-mini"
            /\ c.lookup = "hit"
            /\ c.classification.tier = "reasoning"
            /\ c.classification.confidence = Missing
            /\ ModelForTier(c.classification.tier).alias = "claude-opus"
            /\ c.result.kind = "decision"
            /\ c.result.config.alias = "gpt-4o-mini"
            /\ c.result.confidence = 10000

(***************************************************************************)
(* Properties of a model request the catalog does not hold (specification  *)
(* SpecDecide).                                                            *)
(***************************************************************************)
\* The call's context without its model request.
Unrequested(c) == [c.context EXCEPT !.requestedModel = ""]

\* What the claim compares: the model, the confidence, the cost and the
\* fallback chain of a decision (an exception compares as itself).
Outcome(result) ==
    IF result.kind = "decision"
    THEN <<result.config, result.confidence, result.estimatedCost,
           result.fallbackChain>>
    ELSE <<result>>

\* C25 (as claimed): when the requested model is not in the catalog, the
\* decision of either classifier (model, confidence, cost, fallback chain)
\* is the one computed as if no model had been requested.
C25_CatalogMissIsNoOverride ==
    /\ \A p \in HeuristicDone :
           LET c == calls[p]
           IN  c.context.requestedModel \notin CatalogNames =>
                   Outcome(c.result) = Outcome(DefaultDecide(Unrequested(c)))
    /\ \A p \in LLMDone :
           LET c == calls[p]
           IN  c.context.requestedModel \notin CatalogNames =>
                   Outcome(c.result)
                       = Outcome(mapClassificationToModel(c.classification,
                                                          Unrequested(c)))

\* What does hold: a name that is neither in the catalog nor a member
\* inherited by the catalog object changes nothing.
UnknownNameIsNoOverride ==
    /\ \A p \in HeuristicDone :
           LET c == calls[p]
           IN  c.context.requestedModel \notin CatalogNames \cup InheritedKeys =>
                   Outcome(c.result) = Outcome(DefaultDecide(Unrequested(c)))
    /\ \A p \in LLMDone :
           LET c == calls[p]
           IN  c.context.requestedModel \notin CatalogNames \cup InheritedKeys =>
                   Outcome(c.result)
                       = Outcome(mapClassificationToModel(c.classification,
                                                          Unrequested(c)))

\* A request for no-such-model went through both the scoring path and the
\* two-stage classifier unchanged.
UnknownNameReached ==
    \E p \in HeuristicDone \cup LLMDone :
        /\ calls[p].context.requestedModel = "no-such-model"
        /\ calls[p].result.kind = "decision"

(***************************************************************************)
(* Properties of the cache's time to live (specification SpecCache).       *)
(***************************************************************************)
\* The age, at the time of the step, of the entry that the cache of the
\* exported classifier holds for the prompt request p calls decide with.
AgeFound(p) ==
    now - cache[0][CacheIndex(cache[0], KeyOf(calls'[p]))].timestamp

\* C26 (as claimed): an entry is valid only while now - insertedAt < ttl; a
\* lookup at exactly now - insertedAt = ttl treats the entry as absent and
\* a fresh classification call is made.
C26_ValidOnlyBelowTtl ==
    [][\A p \in Procs :
          (/\ StartsDecide(p)
           /\ enableCache
           /\ CacheHas(cache[0], KeyOf(calls'[p]))
           /\ AgeFound(p) >= CacheTtlMs)
          => /\ calls'[p].lookup # "hit"
             /\ calls'[p].pc = "net"
             /\ calls'[p].net = 1]_vars

\* What does hold: at an age of exactly ttl the entry is still served, and
\* the cache keeps it.
ValidThroughTtl ==
    [][\A p \in Procs :
          (/\ StartsDecide(p)
           /\ enableCache
           /\ CacheHas(cache[0], KeyOf(calls'[p])))
          => IF AgeFound(p) <= CacheTtlMs
             THEN /\ calls'[p].lookup = "hit"
                  /\ calls'[p].net = 0
                  /\ cache' = cache
             ELSE /\ calls'[p].lookup = "expired"
                  /\ calls'[p].net = 1]_vars

\* A decide was served from the cache at the very end of the entry's TTL.
ServedAtTtl ==
    \E p \in Procs :
        /\ calls[p].op = "decide"
        /\ calls[p].lookup = "hit"
        /\ CacheHas(cache[0], KeyOf(calls[p]))
        /\ now - cache[0][CacheIndex(cache[0], KeyOf(calls[p]))].timestamp
               = CacheTtlMs

(***************************************************************************)
(* Properties of the classification results (specification SpecDecide).    *)
(***************************************************************************)
\* A ClassificationResult as its type declares it: one of the four tiers
\* and a number in [0, 1] as confidence.
WellFormed(classification) ==
    /\ classification.tier \in Tiers
    /\ classification.confidence.t = "number"
    /\ classification.confidence.v >= 0
    /\ classification.confidence.v <= 10000

\* The classifications held by the caches.
Cached ==
    UNION {{cache[id][i].result : i \in 1..Len(cache[id])} : id \in DOMAIN cache}

\* The classifications the completed decide calls built their result from.
Used == {calls[p].classification : p \in LLMDone}

\* C27 (as claimed): every classification the two-stage classifier stores in
\* its cache or builds a decision from, be it parsed, cached or the
\* fallback, has one of the four tiers and a numeric confidence in [0, 1].
C27_ClassificationsWellFormed ==
    \A classification \in Cached \cup Used : WellFormed(classification)

\* What does hold: the tier is always one of the four, and a confidence that
\* is a number is in [0, 1]; a confidence that is missing or is a string is
\* stored and used as it came.
TierCoercedNumbersClamped ==
    \A classification \in Cached \cup Used :
        /\ classification.tier \in Tiers
        /\ classification.confidence.t = "number" =>
               /\ classification.confidence.v >= 0
               /\ classification.confidence.v <= 10000
        /\ classification.confidence.t \in {"number", "undefined", "string"}

\* An answer with the tier "bogus" and the confidence 1.5 was stored as
\* medium / 0.5.
CoercionReached ==
    \E p \in LLMDone :
        /\ calls[p].response.rec.tier = "bogus"
        /\ calls[p].response.rec.confidence = Num(15000)
        /\ calls[p].classification.tier = "medium"
        /\ calls[p].classification.confidence = Num(5000)
        /\ calls[p].classification \in Cached

(***************************************************************************)
(* Properties of the selection table (specification SpecDecide).           *)
(***************************************************************************)
\* The score of the call's prompt, in points.
ScoreIs(c, points) == calculateComplexity(c.context.prompt) = points * 50
ScoreAbove(c, points) == calculateComplexity(c.context.prompt) > points * 50

\* The alias the table selects for the call, by the boundaries as claimed.
TableChoice(c) ==
    IF isCodeQuery(c.context.prompt)
    THEN IF ScoreAbove(c, 50) THEN "codex" ELSE "claude-sonnet"
    ELSE IF ScoreAbove(c, 70) THEN "claude-opus"
    ELSE IF ScoreAbove(c, 40) THEN "claude-sonnet"
    ELSE IF ScoreAbove(c, 20) THEN "claude-haiku"
    ELSE "kimi"

\* The scored calls without preference and without model request.
PlainScored ==
    {p \in HeuristicDone :
        /\ Scored(calls[p])
        /\ calls[p].context.requestedModel = ""
        /\ calls[p].context.preferredProvider = ""}

BoundaryAt70 ==
    \E p \in PlainScored :
        /\ ~isCodeQuery(calls[p].context.prompt) /\ ScoreIs(calls[p], 70)
        /\ calls[p].result.config.alias = "claude-sonnet"
BoundaryAt40 ==
    \E p \in PlainScored :
        /\ ~isCodeQuery(calls[p].context.prompt) /\ ScoreIs(calls[p], 40)
        /\ calls[p].result.config.alias = "claude-haiku"
BoundaryAt20 ==
    \E p \in PlainScored :
        /\ ~isCodeQuery(calls[p].context.prompt) /\ ScoreIs(calls[p], 20)
        /\ calls[p].result.config.alias = "kimi"
RowCodex == \E p \in PlainScored : calls[p].result.config.alias = "codex"
RowOpus == \E p \in PlainScored : calls[p].result.config.alias = "claude-opus"

(***************************************************************************)
(* The server's specification: one request at a time comes in at /preview  *)
(* or at the proxy endpoint of a server created with some configuration,   *)
(* while other code unregisters the heuristic classifier or moves the      *)
(* two-stage classifier to the front.  No request gets as far as the       *)
(* proxy's fetch of the provider (Forward): see C29.                       *)
(***************************************************************************)
Configs ==
    {RouterConfig(name, keys) :
        name \in {"default", "llm-classifier"},
        keys \in {{}, {"anthropic", "openai", "google"}}}

Requests ==
    { Body(<<"explain">>, <<>>, "", ""),
      Body(<<"explain">>, <<>>, "gpt-4o", ""),
      Body(<<>>, << <<"hi">>, <<"<essay>">> >>, "", "llm-classifier"),
      Body(<<>>, << <<"HEARTBEAT_OK">> >>, "claude-opus", ""),
      Body(<<>>, <<>>, "", "") }

NextServer ==
    \/ \E config \in Configs, request \in Requests : Preview(1, config, request)
    \/ \E config \in Configs, request \in Requests : Proxy(1, config, request)
    \/ AutoRouteStep(1)
    \/ \E resp \in RouteResponses : Respond(1, resp)
    \/ Return(1)
    \/ UnregisterEngine("default")
    \/ RegisterEngine("llm-classifier", llmClassifierEngine, 120)

SpecServer == Init /\ [][NextServer]_vars

\* The requests a handler has taken up.
Handled == {p \in Procs : calls[p].handler # ""}

\* The engine a request is to be routed by: its metadata.engine, else the
\* configuration's defaultEngine.
NamedEngine(c) ==
    IF c.request.engine # "" THEN c.request.engine ELSE c.config.defaultEngine

\* The registered name of the engine whose decision the call returned.
DecidedBy(c) == c.trace[Len(c.trace)].name

\* C28 (as claimed): the engine named by the configured defaultEngine, or
\* by the request's metadata.engine, is the engine that routes the request:
\* with defaultEngine = "llm-classifier" the decisions of /preview and of
\* the proxy endpoint are produced by the two-stage classifier.
C28_NamedEngineRoutes ==
    \A p \in Handled :
        LET c == calls[p]
        IN  c.result.kind = "decision" =>
                /\ DecidedBy(c) = NamedEngine(c)
                /\ NamedEngine(c) = "llm-classifier" => c.engine.kind = "llm"

\* What does hold: the handlers call autoRoute whatever the configuration
\* and the request name; with the built-in registrations every decision is
\* the heuristic classifier's.
ServerRoutesByPriority ==
    \A p \in Handled :
        LET c == calls[p]
        IN  (c.result.kind = "decision" /\ mutations = 0) =>
                /\ DecidedBy(c) = "default"
                /\ c.result = DefaultDecide(c.context)

\* A preview on a server configured with llm-classifier was decided by the
\* heuristic classifier.
PreviewIgnoresConfig ==
    \E p \in Handled :
        /\ calls[p].handler = "preview"
        /\ calls[p].config.defaultEngine = "llm-classifier"
        /\ calls[p].request.engine = "llm-classifier"
        /\ calls[p].reply.status = 200
        /\ DecidedBy(calls[p]) = "default"

\* The text of a request: its prompt member, else its last message.
RequestText(request) ==
    IF request.prompt # <<>> THEN request.prompt
    ELSE IF Len(request.messages) > 0
    THEN request.messages[Len(request.messages)]
    ELSE <<>>

\* C29 (as claimed): the context a handler passes to autoRoute carries the
\* request's text as prompt and its model member as requestedModel; a
\* request with text is not rejected as having no prompt, and what the
\* proxy sends on has the chosen model as its model member.
C29_ContextCarriesRequest ==
    \A p \in Handled :
        LET c == calls[p]
        IN  /\ c.context.prompt = RequestText(c.request)
            /\ c.context.requestedModel = c.request.model
            /\ (c.handler = "proxy" /\ RequestText(c.request) # <<>>) =>
                   /\ c.reply.status # 400
                   /\ c.op = "autoRoute"
            /\ c.pc = "forward" => c.upstream.model = c.result.config.model

\* What does hold: the context of every request has the empty prompt and no
\* requested model, and the proxy endpoint answers every request with 400
\* without calling autoRoute.
ContextIsAlwaysEmpty ==
    \A p \in Handled :
        LET c == calls[p]
        IN  /\ c.context = RoutingContext(<<>>, "", "")
            /\ c.handler = "proxy" =>
                   /\ c.pc = "done"
                   /\ c.op = ""
                   /\ c.reply.status = 400
            /\ c.pc # "forward"

\* A proxied request with the prompt "explain" and the model gpt-4o was
\* answered with 400.
ProxyRejectsPrompt ==
    \E p \in Handled :
        /\ calls[p].handler = "proxy"
        /\ calls[p].request.prompt = <<"explain">>
        /\ calls[p].request.model = "gpt-4o"
        /\ calls[p].reply.status = 400

(***************************************************************************)
(* Properties of the preferred provider (specification SpecDecide).        *)
(***************************************************************************)
\* The catalog's entries of a provider.
Offered(provider) == {MODELS[i] : i \in {j \in 1..Len(MODELS) : MODELS[j].provider = provider}}

\* What the selection table gives the call's prompt.
Tabled(c) == SelectByComplexity(c.context.prompt, calculateComplexity(c.context.prompt))

\* The call is decided by the table and the preference: its prompt is
\* scored and it names no model that the explicit request would resolve.
PreferenceDecides(c) ==
    /\ Scored(c)
    /\ c.context.requestedModel \notin CatalogNames \cup InheritedKeys

\* C31: on the scoring path, when the context's preferred provider differs
\* from the provider of the model the selection table gave, the heuristic
\* classifier selects an entry of that provider whose cost per 1000 tokens
\* is the minimum among the provider's entries, and appends a note to the
\* table's rationale; when the catalog has no entry of the provider, the
\* model and the rationale are the table's.
C31_PreferenceSubstitutesCheapest ==
    \A p \in HeuristicDone :
        LET c == calls[p]
            pp == c.context.preferredProvider
            table == Tabled(c)
        IN  (PreferenceDecides(c) /\ pp # "" /\ pp # table.config.provider) =>
                /\ c.result.kind = "decision"
                /\ IF Offered(pp) # {}
                   THEN /\ c.result.config \in Offered(pp)
                        /\ \A m \in Offered(pp) :
                               c.result.config.costPer1kTokens <= m.costPer1kTokens
                        /\ c.result.reasoning
                               = table.reasoning \o <<"(user preferred provider)">>
                   ELSE /\ c.result.config = table.config
                        /\ c.result.reasoning = table.reasoning

\* A plain prompt that the table gives to kimi (ollama) with openai
\* preferred: gpt-4o-mini, the cheapest of openai's four entries, is
\* selected.
C31_Witness ==
    \E p \in HeuristicDone :
        LET c == calls[p]
        IN  /\ c.context.prompt = <<"lorem">>
            /\ c.context.requestedModel = ""
            /\ c.context.preferredProvider = "openai"
            /\ Tabled(c).config.alias = "kimi"
            /\ Cardinality(Offered("openai")) = 4
            /\ c.result.kind = "decision"
            /\ c.result.config.alias = "gpt-4o-mini"
            /\ c.result.reasoning = Tabled(c).reasoning \o <<"(user preferred provider)">>

\* A provider the catalog lacks was preferred: the table's choice stands.
PreferenceWithoutEntry ==
    \E p \in HeuristicDone :
        LET c == calls[p]
        IN  /\ PreferenceDecides(c)
            /\ c.context.preferredProvider = "local"
            /\ Offered("local") = {}
            /\ c.result.kind = "decision"
            /\ c.result.config = Tabled(c).config
            /\ c.result.reasoning = Tabled(c).reasoning

(***************************************************************************)
(* Properties of the heuristic classifier's fallback chain (specification  *)
(* SpecDecide).                                                            *)
(***************************************************************************)
\* The chain is k models of the chosen model's provider and then free
\* models of the local provider.
SplitsAt(chain, chosen, k) ==
    /\ k <= Len(chain)
    /\ Len(chain) - k <= 2
    /\ \A i \in 1..k : chain[i].provider = chosen.provider
    /\ \A i \in (k + 1)..Len(chain) :
           chain[i].provider = "ollama" /\ chain[i].costPer1kTokens = 0

\* C32 (as claimed): on the scoring path the fallback chain is up to 2
\* models of the chosen model's provider, each cheaper than the chosen
\* model, followed by up to 2 free models of the local provider, and the
\* chosen model is not in it.
C32_ChainCheaperThenLocal ==
    \A p \in HeuristicDone :
        LET c == calls[p]
            chain == c.result.fallbackChain
            chosen == c.result.config
        IN  (Scored(c) /\ c.result.kind = "decision") =>
                /\ \E k \in 0..2 :
                       /\ SplitsAt(chain, chosen, k)
                       /\ \A i \in 1..k :
                              chain[i].costPer1kTokens < chosen.costPer1kTokens
                /\ \A i \in 1..Len(chain) : chain[i] # chosen

\* What does hold: the same-provider part is the provider's other models in
\* ascending order of cost, cheaper than the chosen model or not.
ChainOthersThenLocal ==
    \A p \in HeuristicDone :
        LET c == calls[p]
            chain == c.result.fallbackChain
            chosen == c.result.config
        IN  (Scored(c) /\ c.result.kind = "decision") =>
                /\ \E k \in 0..2 :
                       /\ SplitsAt(chain, chosen, k)
                       /\ \A i \in 1..k : chain[i].model # chosen.model
                       /\ \A i \in 1..(k - 1) :
                              chain[i].costPer1kTokens <= chain[i + 1].costPer1kTokens
                /\ \A i \in 1..Len(chain) : chain[i] # chosen

\* claude-haiku, the cheapest model of anthropic, was chosen and the chain
\* proposes claude-sonnet and claude-opus.
CostlierFallbackReached ==
    \E p \in HeuristicDone :
        LET c == calls[p]
        IN  /\ Scored(c)
            /\ c.result.kind = "decision"
            /\ c.result.config.alias = "claude-haiku"
            /\ Len(c.result.fallbackChain) = 4
            /\ c.result.fallbackChain[1].alias = "claude-sonnet"
            /\ c.result.fallbackChain[2].alias = "claude-opus"

(***************************************************************************)
(* Properties of the complexity score (specification SpecDecide).  Scores  *)
(* are in fiftieths of a point and confidences in ten-thousandths.         *)
(***************************************************************************)
\* The score as claimed: 20 points for each pair of fence markers, nothing
\* for a marker without its pair; the other terms as in calculateComplexity.
ScoreOfCompleteBlocks(prompt) ==
    LET length == Length(prompt)
        s1 == IF length > 200 THEN Min(750, length - 100) ELSE 0
        s2 == s1 + (TickCount(prompt) \div 2) * 1000
        s3 == s2 + QuestionCount(prompt) * 150
        s4 == s3 + (IF Test("reasoning", prompt) THEN 500 ELSE 0)
        s5 == s4 + (IF Test("questionComplexity", prompt) THEN 750 ELSE 0)
        s6 == s5 + (IF Test("business", prompt) THEN 400 ELSE 0)
        s7 == s6 + (IF Test("filePath", prompt) THEN 600 ELSE 0)
    IN  Min(5000, s7)

\* C33 (as claimed): the score that decide computes, seen through the
\* decision's confidence max(0.5, 1 - score/200), counts 20 points per
\* complete fenced block and nothing for an unpaired fence marker, and it
\* is within [0,100].
C33_ScoreCountsCompleteBlocks ==
    \A p \in HeuristicDone :
        LET c == calls[p]
            prompt == c.context.prompt
        IN  (Scored(c) /\ c.result.kind = "decision") =>
                /\ c.result.confidence
                       = Max(5000, 10000 - ScoreOfCompleteBlocks(prompt))
                /\ calculateComplexity(prompt) \in 0..5000

\* What does hold: the score is within [0,100], and it differs from the
\* claimed one by 10 points exactly when the number of fence markers is odd
\* (and the clamp at 100 does not hide it).
ScoreCountsEveryMarker ==
    \A p \in HeuristicDone :
        LET c == calls[p]
            prompt == c.context.prompt
            score == calculateComplexity(prompt)
        IN  (Scored(c) /\ c.result.kind = "decision") =>
                /\ c.result.confidence = Max(5000, 10000 - score)
                /\ score \in 0..5000
                /\ score = Min(5000, ScoreOfCompleteBlocks(prompt)
                                       + (TickCount(prompt) % 2) * 500)

\* A prompt that is one fence marker and nothing else got confidence 0.95:
\* its score is 10, not 0.
UnpairedFenceScores ==
    \E p \in HeuristicDone :
        LET c == calls[p]
        IN  /\ c.context.prompt = <<"<fence>">>
            /\ c.context.requestedModel = ""
            /\ TickCount(c.context.prompt) = 1
            /\ ScoreOfCompleteBlocks(c.context.prompt) = 0
            /\ c.result.kind = "decision"
            /\ c.result.confidence = 9500

\* A complete block (two markers) scored 20 points: confidence 0.9.
CompleteBlockScores ==
    \E p \in HeuristicDone :
        LET c == calls[p]
        IN  /\ c.context.prompt = <<"<fence>", "<fence>">>
            /\ c.result.kind = "decision"
            /\ c.result.confidence = 9000

(***************************************************************************)
(* Properties of the two-stage classifier's confidence hint (specification *)
(* Spec).                                                                  *)
(***************************************************************************)
\* The hint as claimed, by the prompt's length.
HintOfLength(length) ==
    IF length < 20 THEN 3000 ELSE IF length < 100 THEN 6000 ELSE 8500

\* The turns of autoRoute call c that met a two-stage classifier.
ClassifierTurns(c) ==
    {k \in 1..Len(c.trace) : k <= Len(c.sorted) /\ c.sorted[k].engine.kind = "llm"}

\* C34 (as claimed): the two-stage classifier's hint is 0.3, 0.6 or 0.85 by
\* the prompt's length, and for a prompt shorter than 20 characters
\* autoRoute skips the two-stage classifier: no decide, no network call.
C34_ShortPromptSkipsClassifier ==
    \A p \in AutoRouteCalls :
        LET c == calls[p]
            length == Length(c.context.prompt)
        IN  /\ \A k \in ClassifierTurns(c) :
                   /\ GetConfidence(c.sorted[k].engine, c.context) = HintOfLength(length)
                   /\ length < 20 => c.trace[k].ev = "skip"
            /\ length < 20 => c.net = 0 /\ c.pc # "net"

\* What does hold: the hint has the claimed values, and because the gate is
\* `confidence < 0.3` the hint 0.3 never skips: whenever the scan reaches a
\* two-stage classifier its decide is called, whatever the prompt's length.
HintNeverSkips ==
    \A p \in AutoRouteCalls :
        LET c == calls[p]
            length == Length(c.context.prompt)
        IN  \A k \in ClassifierTurns(c) :
                /\ GetConfidence(c.sorted[k].engine, c.context) = HintOfLength(length)
                /\ c.trace[k].ev = "decide"

\* autoRoute of the 2-character prompt "hi" reached the two-stage
\* classifier first, called its decide and awaits the network call.
ShortPromptClassified ==
    \E p \in AutoRouteCalls :
        LET c == calls[p]
        IN  /\ c.context.prompt = <<"hi">>
            /\ Length(c.context.prompt) = 2
            /\ 1 \in ClassifierTurns(c)
            /\ c.trace[1].ev = "decide"
            /\ c.pc = "net"
            /\ c.net = 1

(***************************************************************************)
(* Properties of a cache hit (specification SpecCache).                    *)
(***************************************************************************)
\* In this step request p's decide is served from the cache.
HitBy(p) == StartsDecide(p) /\ calls'[p].lookup = "hit"

RECURSIVE ClosingOf(_, _, _)
ClosingOf(raw, i, depth) ==
    IF i > Len(raw) THEN 0
    ELSE LET d == depth + (IF raw[i] = "{" THEN 1
                           ELSE IF raw[i] = "}" THEN 0 - 1 ELSE 0)
         IN  IF d = 0 THEN i ELSE ClosingOf(raw, i + 1, d)

\* The first balanced {...} substring of raw, as claimed; raw without one.
FirstBalanced(raw) ==
    LET opens == {i \in 1..Len(raw) : raw[i] = "{"}
        first == CHOOSE i \in opens : \A j \in opens : i <= j
    IN  IF opens # {} /\ ClosingOf(raw, first, 0) # 0
        THEN SubSeq(raw, first, ClosingOf(raw, first, 0))
        ELSE raw

\* Calls of the two-stage classifier that ended on an answered
\* classification request.
Answered ==
    {p \in LLMDone : calls[p].lookup # "hit" /\ calls[p].response.kind = "text"}

\* C36 (as claimed): when the first balanced {...} substring of the answer
\* is a JSON record, whatever commentary surrounds it, the classification
\* is that record (validated) and not the failure path's.
C36_ParsesFirstBalancedRecord ==
    \A p \in Answered :
        LET c == calls[p]
            parsed == JsonParse(FirstBalanced(c.response.raw), c.response.rec)
        IN  parsed.is = "object" =>
                /\ c.classification = Validate(parsed.rec)
                /\ c.classification # FallbackClassification

\* What does hold: the record is parsed when no closing brace follows it,
\* i.e. when the commentary after it is free of "}".
ParsesRecordBeforePlainText ==
    \A p \in Answered :
        LET c == calls[p]
            raw == c.response.raw
            parsed == JsonParse(FirstBalanced(raw), c.response.rec)
        IN  (parsed.is = "object" /\ ExtractJson(raw) = FirstBalanced(raw)) =>
                /\ c.classification = Validate(parsed.rec)
                /\ c.classification # FallbackClassification

\* A record between two pieces of plain commentary was parsed.
SurroundedRecordParsed ==
    \E p \in Answered :
        LET c == calls[p]
        IN  /\ c.response.raw = <<"text", "{", "fields", "}", "text">>
            /\ c.response.rec.tier = "complex"
            /\ c.classification.tier = "complex"
            /\ c.classification.reasoning = "because"

\* A record followed by commentary that holds braces took the failure path.
TrailingBracesFail ==
    \E p \in Answered :
        LET c == calls[p]
        IN  /\ c.response.raw = <<"{", "fields", "}", "text", "{", "}">>
            /\ FirstBalanced(c.response.raw) = <<"{", "fields", "}">>
            /\ c.classification = FallbackClassification

(***************************************************************************)
(* Properties of autoRoute on the built-in registrations (specification    *)
(* SpecAuto).                                                              *)
(***************************************************************************)
\* The names of the snapshot autoRoute call c scans, in scan order.
ScanOrder(c) == [k \in 1..Len(c.sorted) |-> c.sorted[k].name]

\* C37: with the registrations of initializeRegistry alone, every autoRoute
\* call scans the heuristic engine first, finds its hint at 0.5 or more and
\* its decide not null, and returns that decision: no turn reaches the
\* two-stage classifier, no network call is issued and no cache is touched.
C37_BuiltInsAlwaysHeuristic ==
    \A p \in AutoRouteCalls :
        LET c == calls[p]
        IN  /\ ScanOrder(c) = <<"default", "llm-classifier">>
            /\ c.sorted[1].engine = defaultEngine
            /\ GetConfidence(defaultEngine, c.context) >= 5000
            /\ \A k \in 1..Len(c.trace) :
                   /\ k = 1
                   /\ c.trace[k].name = "default"
                   /\ c.trace[k].ev = "decide"
                   /\ c.trace[k].ret.kind = "decision"
            /\ c.net = 0
            /\ c.pc \in {"scan", "done"}
            /\ c.pc = "scan" => c.idx = 1 /\ c.trace = <<>>
            /\ c.pc = "done" =>
                   /\ Len(c.trace) = 1
                   /\ c.result.kind = "decision"
                   /\ c.result = c.trace[1].ret
                   /\ c.result = DefaultDecide(c.context)
            /\ cache = [id \in EngineIds |-> <<>>]

\* autoRoute of a prompt scoring 75 (hint 0.625) and 171 characters long
\* (the two-stage classifier's hint would be 0.85) returned the heuristic
\* engine's choice of claude-opus after one turn.
C37_Witness ==
    \E p \in AutoRouteCalls :
        LET c == calls[p]
        IN  /\ c.pc = "done"
            /\ c.context.prompt = <<"<what-ifs>", "<forecast>">>
            /\ c.context.requestedModel = ""
            /\ c.context.preferredProvider = ""
            /\ calculateComplexity(c.context.prompt) = 3750
            /\ Length(c.context.prompt) = 171
            /\ GetConfidence(defaultEngine, c.context) = 6250
            /\ GetConfidence(llmClassifierEngine, c.context) = 8500
            /\ Len(c.trace) = 1
            /\ c.trace[1].name = "default"
            /\ c.result.kind = "decision"
            /\ c.result.config.alias = "claude-opus"
            /\ c.net = 0

(***************************************************************************)
(* Properties of failed classification calls and the cache (specification  *)
(* SpecCache).                                                             *)
(***************************************************************************)
\* In this step the classification call of request p's decide comes to an
\* end by the failure path.
FailsBy(p) ==
    /\ calls[p].pc = "net"
    /\ calls[p].op = "decide"
    /\ calls'[p].pc = "done"
    /\ CallFailed(calls'[p])

\* The cache of the exported classifier holds, for the key, the failure
\* path's classification, and the entry's age is within the TTL.
HoldsFailure(key) ==
    /\ CacheHas(cache[0], key)
    /\ cache[0][CacheIndex(cache[0], key)].result = FallbackClassification
    /\ now - cache[0][CacheIndex(cache[0], key)].timestamp <= CacheTtlMs

\* C38: with caching enabled, a failed classification call writes the
\* fallback classification (medium, 0.5) under the prompt's fingerprint, and
\* a decide that finds that entry within the TTL uses it and issues no
\* network call, whatever the classifier model would answer now; with
\* caching disabled every decide issues exactly one network call and the
\* cache is neither read nor written.
C38_FailureIsCached ==
    [][\A p \in Procs :
          /\ (FailsBy(p) /\ enableCache) =>
                 LET key == KeyOf(calls[p])
                 IN  /\ calls'[p].classification = FallbackClassification
                     /\ CacheHas(cache'[0], key)
                     /\ cache'[0][CacheIndex(cache'[0], key)]
                            = CacheEntry(key, FallbackClassification, now)
          /\ (StartsDecide(p) /\ enableCache /\ HoldsFailure(KeyOf(calls'[p]))) =>
                 /\ calls'[p].lookup = "hit"
                 /\ calls'[p].net = 0
                 /\ calls'[p].pc = "done"
                 /\ calls'[p].classification = FallbackClassification
                 /\ calls'[p].classification.tier = "medium"
                 /\ calls'[p].classification.confidence = Num(5000)
                 /\ calls'[p].result
                        = mapClassificationToModel(FallbackClassification,
                                                   calls'[p].context)
                 /\ cache' = cache
          /\ ~enableCache =>
                 /\ cache' = cache
                 /\ cache = [id \in EngineIds |-> <<>>]
                 /\ StartsDecide(p) =>
                        /\ calls'[p].pc = "net"
                        /\ calls'[p].lookup = "none"
                        /\ calls'[p].net = 1
                 /\ calls[p].pc = "net" =>
                        /\ calls'[p].net = 1
                        /\ calls'[p].lookup = "none"]_vars

\* The latest decide was served the fallback classification from the cache
\* without a network call, while the cache also holds a real answer that
\* the classifier model gave for another prompt after that failure.
C38_Witness ==
    \E p \in Procs :
        /\ enableCache
        /\ calls[p].op = "decide"
        /\ calls[p].pc = "done"
        /\ calls[p].lookup = "hit"
        /\ calls[p].net = 0
        /\ calls[p].classification = FallbackClassification
        /\ last # NoLast
        /\ last.key = KeyOf(calls[p])
        /\ last.classification = FallbackClassification
        /\ \E i \in 1..Len(cache[0]) :
               /\ cache[0][i].key # KeyOf(calls[p])
               /\ cache[0][i].result.tier = "complex"
               /\ cache[0][i].timestamp > last.timestamp

\* With caching disabled a second decide on a prompt ended after a network
\* call of its own.
UncachedDecideCallsAgain ==
    \E p \in Procs :
        /\ ~enableCache
        /\ calls[p].op = "decide"
        /\ calls[p].pc = "done"
        /\ calls[p].net = 1
        /\ calls[p].lookup = "none"
        /\ \E q \in Procs \ {p} :
               /\ calls[q].pc = "done"
               /\ calls[q].context = calls[p].context
               /\ calls[q].net = 1

(***************************************************************************)
(* The fingerprint's specification: concurrent requests call decide of the *)
(* two-stage classifier on prompts of more than 200 characters, two of     *)
(* which differ only after their 200th character and one from its first    *)
(* character on, while time passes.                                        *)
(***************************************************************************)
KeyPrompts ==
    { <<"<essay>", "lorem">>, <<"<essay>", "const">>, <<"lorem", "<essay>">> }

KeyContexts ==
    {RoutingContext(prompt, "", "") : prompt \in KeyPrompts}
    \cup {RoutingContext(<<"<essay>", "const">>, "gpt-4o-mini", "")}

NextKey ==
    \/ \E p \in Procs, context \in KeyContexts : LLMDecide(p, context)
    \/ \E p \in Procs, resp \in CacheResponses : Respond(p, resp)
    \/ \E p \in Procs : Return(p)
    \/ Tick

SpecKey == Init /\ [][NextKey]_vars

\* Request q has ended a decide whose classification is the one the cache
\* holds most recently, and request p's prompt agrees with q's on the first
\* 200 characters and differs from it afterwards.
AgreesWithLatest(p, q) ==
    /\ q # p
    /\ calls[q].op = "decide"
    /\ calls[q].pc = "done"
    /\ last # NoLast
    /\ last.key = KeyOf(calls[q])
    /\ last.classification = calls[q].classification
    /\ calls'[p].context.prompt # calls[q].context.prompt
    /\ Prefix(calls'[p].context.prompt, 200) = Prefix(calls[q].context.prompt, 200)

\* C39: a decide on a prompt that agrees on its first 200 characters with
\* the prompt of the latest decide and differs from it afterwards, started
\* within the TTL of that decide's entry, uses that decide's classification
\* without a network call; when neither request names a model, both get the
\* same chosen model.
C39_KeyIsFirst200Characters ==
    [][\A p, q \in Procs :
          (/\ StartsDecide(p)
           /\ enableCache
           /\ AgreesWithLatest(p, q)
           /\ now - last.timestamp <= CacheTtlMs)
          => /\ calls'[p].lookup = "hit"
             /\ calls'[p].net = 0
             /\ calls'[p].pc = "done"
             /\ calls'[p].classification = calls[q].classification
             /\ (/\ calls'[p].context.requestedModel = ""
                 /\ calls[q].context.requestedModel = "")
                => /\ calls'[p].result.kind = "decision"
                   /\ calls'[p].result.config = calls[q].result.config]_vars

\* Two requests whose prompts differ only after the 200th character (a
\* code prompt and a plain one) have ended: one on a network call that
\* classified its prompt "complex", the other on a hit with that
\* classification and the same chosen model.
C39_Witness ==
    \E p, q \in Procs :
        /\ calls[q].op = "decide" /\ calls[q].pc = "done"
        /\ calls[p].op = "decide" /\ calls[p].pc = "done"
        /\ calls[q].context = RoutingContext(<<"<essay>", "lorem">>, "", "")
        /\ calls[p].context = RoutingContext(<<"<essay>", "const">>, "", "")
        /\ Length(calls[p].context.prompt) > 200
        /\ calls[q].lookup = "miss" /\ calls[q].net = 1
        /\ calls[q].classification.tier = "complex"
        /\ calls[p].lookup = "hit" /\ calls[p].net = 0
        /\ calls[p].classification = calls[q].classification
        /\ calls[p].result.config = calls[q].result.config
        /\ calls[p].result.config.alias = "claude-sonnet"

\* Prompts that differ within their first 200 characters have keys and
\* entries of their own.
DistinctPrefixesKeptApart ==
    \E i, j \in 1..Len(cache[0]) :
        /\ cache[0][i].key = getCacheKey(<<"<essay>", "lorem">>)
        /\ cache[0][j].key = getCacheKey(<<"lorem", "<essay>">>)
        /\ i # j

(***************************************************************************)
(* Properties of unregisterEngine's return value (specification Spec).     *)
(***************************************************************************)
\* In this step unregisterEngine(name) is called.
Unregisters(name) == mutations' # mutations /\ unregisterEngine(name)

\* C40: unregisterEngine(name) returns true exactly when an instance was
\* stored under name before the call.  For a name that has a factory and
\* no instance it removes the factory and the priority and returns false;
\* for a name with neither instance nor factory it returns false and
\* changes no registration.
C40_UnregisterReturnsInstanceHeld ==
    [][\A name \in Names :
          Unregisters(name) =>
              /\ removed'.name = name
              /\ removed'.result = (\E i \in 1..Len(engines) : engines[i].name = name)
              /\ (Instantiates(name)) =>
                     /\ removed'.result = FALSE
                     /\ name \notin DOMAIN factories'
                     /\ name \notin DOMAIN priorities'
                     /\ engines' = engines
              /\ (~Known(name)) =>
                     /\ removed'.result = FALSE
                     /\ engines' = engines
                     /\ factories' = factories
                     /\ priorities' \in {priorities, Remove(priorities, name)}
                     /\ name \notin DOMAIN priorities => priorities' = priorities
                     /\ created' = created]_vars

\* unregisterEngine("custom") was called while "custom" had its factory
\* and no instance: factory and priority are gone, and it returned false.
C40_Witness ==
    /\ removed = Removal("custom", FALSE)
    /\ created = 0
    /\ "custom" \notin DOMAIN factories
    /\ "custom" \notin DOMAIN priorities
    /\ "llm" \in DOMAIN factories
    /\ Len(engines) = 2

\* unregisterEngine returned true for a name whose instance a factory had
\* constructed on lookup.
RemovedConstructedInstance ==
    /\ removed = Removal("custom", TRUE)
    /\ created = 1
    /\ ~Known("custom")

\* unregisterEngine returned false for a name never registered, and the
\* registrations are those of initializeRegistry.
RemovedUnknownName ==
    /\ removed = Removal("mine", FALSE)
    /\ engines = InitialEngines
    /\ factories = InitialFactories
    /\ priorities = InitialPriorities

====
